---- MODULE Spec2Model ----
(***************************************************************************)
(* Voice command interpretation engine of the PAC probability calculator.  *)
(*                                                                         *)
(* The module models the v5 engine of src/analytics.js (lines 798-1581):   *)
(* the numeral normalizer, the tokenizer, the chunk parser with its        *)
(* consumption map, the confidence gate, the history buffer and the        *)
(* capture session handlers.  Of the legacy engine of src/analytics.js and *)
(* of src/voice-control.js it models processCommand.  Texts are TLA+       *)
(* strings handled character by character, confidences are integers in    *)
(* hundredths (0.35 is 35).                                                *)
(***************************************************************************)
EXTENDS Integers, Sequences, FiniteSets, Bags, TLC

(***************************************************************************)
(* Bounds of the model.                                                    *)
(***************************************************************************)
MaxTokens == 3
MaxChunks == 3

(***************************************************************************)
(* Characters and strings (JavaScript String primitives).                  *)
(***************************************************************************)
Ch(s, i) == SubSeq(s, i, i)

Digits == {"0", "1", "2", "3", "4", "5", "6", "7", "8", "9"}

LowerLetters ==
    {"a", "b", "c", "d", "e", "f", "g", "h", "i", "j", "k", "l", "m",
     "n", "o", "p", "q", "r", "s", "t", "u", "v", "w", "x", "y", "z"}

UpperToLower ==
    [c \in {"A", "B", "C", "D", "E", "F", "G", "H", "I", "J", "K", "L", "M",
            "N", "O", "P", "Q", "R", "S", "T", "U", "V", "W", "X", "Y", "Z"} |->
        CASE c = "A" -> "a" [] c = "B" -> "b" [] c = "C" -> "c" [] c = "D" -> "d"
          [] c = "E" -> "e" [] c = "F" -> "f" [] c = "G" -> "g" [] c = "H" -> "h"
          [] c = "I" -> "i" [] c = "J" -> "j" [] c = "K" -> "k" [] c = "L" -> "l"
          [] c = "M" -> "m" [] c = "N" -> "n" [] c = "O" -> "o" [] c = "P" -> "p"
          [] c = "Q" -> "q" [] c = "R" -> "r" [] c = "S" -> "s" [] c = "T" -> "t"
          [] c = "U" -> "u" [] c = "V" -> "v" [] c = "W" -> "w" [] c = "X" -> "x"
          [] c = "Y" -> "y" [] c = "Z" -> "z"]

ToLowerChar(c) == IF c \in DOMAIN UpperToLower THEN UpperToLower[c] ELSE c

Min(S) == CHOOSE x \in S : \A y \in S : x <= y

Max(S) == CHOOSE x \in S : \A y \in S : x >= y

\* The strings of seq, one after the other
RECURSIVE Concat(_)
Concat(seq) ==
    IF Len(seq) = 0 THEN ""
    ELSE IF Len(seq) = 1 THEN seq[1]
    ELSE LET m == Len(seq) \div 2
         IN  Concat(SubSeq(seq, 1, m)) \o Concat(SubSeq(seq, m + 1, Len(seq)))

toLowerCase(s) == Concat([i \in 1..Len(s) |-> ToLowerChar(Ch(s, i))])

\* \s of a regular expression and the white space trim() removes
IsSpace(c) == c \in {" ", "\t", "\n"}

\* \w of a regular expression
IsWordChar(c) ==
    c \in LowerLetters \/ c \in DOMAIN UpperToLower \/ c \in Digits \/ c = "_"

\* The positions of s that hold no white space
NonSpaces(s) == {i \in 1..Len(s) : ~IsSpace(Ch(s, i))}

TrimStart(s) ==
    IF NonSpaces(s) = {} THEN "" ELSE SubSeq(s, Min(NonSpaces(s)), Len(s))

TrimEnd(s) ==
    IF NonSpaces(s) = {} THEN "" ELSE SubSeq(s, 1, Max(NonSpaces(s)))

trim(s) == TrimEnd(TrimStart(s))

StartsWith(s, p) == Len(s) >= Len(p) /\ SubSeq(s, 1, Len(p)) = p

EndsWith(s, p) == Len(s) >= Len(p) /\ SubSeq(s, Len(s) - Len(p) + 1, Len(s)) = p

Includes(s, p) == \E i \in 1..(Len(s) - Len(p) + 1) : SubSeq(s, i, i + Len(p) - 1) = p

\* String.prototype.split(/\s+/): the pieces between maximal runs of white
\* space; a text without white space (the empty text included) is one piece
RECURSIVE split(_)
split(s) ==
    LET spaces == {i \in 1..Len(s) : IsSpace(Ch(s, i))}
    IN  IF spaces = {} THEN <<s>>
        ELSE <<SubSeq(s, 1, Min(spaces) - 1)>>
                 \o split(TrimStart(SubSeq(s, Min(spaces), Len(s))))

join(seq, sep) ==
    Concat([i \in 1..Len(seq) |-> IF i = 1 THEN seq[i] ELSE sep \o seq[i]])

(***************************************************************************)
(* parseInt(string): optional white space and sign, then the longest       *)
(* prefix of decimal digits; NaN when there is none.  The result is a      *)
(* record, nan telling whether it is NaN.                                  *)
(***************************************************************************)
DigitVal(c) ==
    CASE c = "0" -> 0 [] c = "1" -> 1 [] c = "2" -> 2 [] c = "3" -> 3
      [] c = "4" -> 4 [] c = "5" -> 5 [] c = "6" -> 6 [] c = "7" -> 7
      [] c = "8" -> 8 [] c = "9" -> 9

RECURSIVE DigitsPrefix(_, _)
DigitsPrefix(s, acc) ==
    IF Len(s) > 0 /\ Ch(s, 1) \in Digits
    THEN DigitsPrefix(Tail(s), 10 * acc + DigitVal(Ch(s, 1)))
    ELSE acc

NaN == [nan |-> TRUE, n |-> 0]

parseInt(str) ==
    LET s    == TrimStart(str)
        neg  == Len(s) > 0 /\ Ch(s, 1) = "-"
        body == IF Len(s) > 0 /\ Ch(s, 1) \in {"-", "+"} THEN Tail(s) ELSE s
    IN  IF Len(body) > 0 /\ Ch(body, 1) \in Digits
        THEN [nan |-> FALSE,
              n   |-> IF neg THEN 0 - DigitsPrefix(body, 0) ELSE DigitsPrefix(body, 0)]
        ELSE NaN

isNaN(r) == r.nan

(***************************************************************************)
(* Numeral normalizer.                                                     *)
(***************************************************************************)
\* Object.keys(wordToNum), in insertion order
wordToNumKeys ==
    <<"zero", "one", "two", "three", "four", "five", "six", "seven", "eight",
      "nine", "ten", "eleven", "twelve", "thirteen", "fourteen", "fifteen",
      "sixteen", "seventeen", "eighteen", "nineteen", "twenty", "to", "too">>

wordToNum(w) ==
    CASE w = "zero" -> "0" [] w = "one" -> "1" [] w = "two" -> "2"
      [] w = "three" -> "3" [] w = "four" -> "4" [] w = "five" -> "5"
      [] w = "six" -> "6" [] w = "seven" -> "7" [] w = "eight" -> "8"
      [] w = "nine" -> "9" [] w = "ten" -> "10" [] w = "eleven" -> "11"
      [] w = "twelve" -> "12" [] w = "thirteen" -> "13" [] w = "fourteen" -> "14"
      [] w = "fifteen" -> "15" [] w = "sixteen" -> "16" [] w = "seventeen" -> "17"
      [] w = "eighteen" -> "18" [] w = "nineteen" -> "19" [] w = "twenty" -> "20"
      [] w = "to" -> "2" [] w = "too" -> "2"

\* keys.sort((a, b) => b.length - a.length): a stable sort, longest first
RECURSIVE SortFrom(_, _)
SortFrom(keys, len) ==
    IF len = 0 THEN <<>>
    ELSE SelectSeq(keys, LAMBDA w : Len(w) = len) \o SortFrom(keys, len - 1)

sortedWords == SortFrom(wordToNumKeys, 9)

\* \b at the position before character p of s (p in 1..Len(s)+1)
WordBoundary(s, p) ==
    LET before == p > 1 /\ IsWordChar(Ch(s, p - 1))
        after  == p <= Len(s) /\ IsWordChar(Ch(s, p))
    IN  before # after

\* The positions from p on where \bword\b matches in s
WordMatches(s, p, word) ==
    {q \in p..(Len(s) - Len(word) + 1) :
        /\ SubSeq(s, q, q + Len(word) - 1) = word
        /\ WordBoundary(s, q)
        /\ WordBoundary(s, q + Len(word))}

\* s.replace(new RegExp(`\\b${word}\\b`, 'g'), rep), scanning from position p:
\* the text up to the leftmost match is kept, the match is replaced, and
\* the scan goes on behind it
RECURSIVE ReplaceFrom(_, _, _, _)
ReplaceFrom(s, p, word, rep) ==
    IF WordMatches(s, p, word) = {} THEN SubSeq(s, p, Len(s))
    ELSE SubSeq(s, p, Min(WordMatches(s, p, word)) - 1) \o rep
             \o ReplaceFrom(s, Min(WordMatches(s, p, word)) + Len(word), word, rep)

\* A faulty replaceWord, which replaces the leftmost match only (a regular
\* expression without the g flag)
replaceWord_FirstOnly(s, word) ==
    IF WordMatches(s, 1, word) = {} THEN s
    ELSE SubSeq(s, 1, Min(WordMatches(s, 1, word)) - 1) \o wordToNum(word)
             \o SubSeq(s, Min(WordMatches(s, 1, word)) + Len(word), Len(s))

replaceWord(s, word) == ReplaceFrom(s, 1, word, wordToNum(word))

RECURSIVE ReplaceWords(_, _)
ReplaceWords(result, words) ==
    IF Len(words) = 0 THEN result
    ELSE ReplaceWords(replaceWord(result, Head(words)), Tail(words))

\* The text with every occurrence of word from position p on replaced,
\* inside longer words too
RECURSIVE NaiveReplaceFrom(_, _, _)
NaiveReplaceFrom(s, p, word) ==
    LET at == {q \in p..(Len(s) - Len(word) + 1) : SubSeq(s, q, q + Len(word) - 1) = word}
    IN  IF at = {} THEN SubSeq(s, p, Len(s))
        ELSE SubSeq(s, p, Min(at) - 1) \o wordToNum(word)
                 \o NaiveReplaceFrom(s, Min(at) + Len(word), word)

RECURSIVE NaiveReplaceWords(_, _)
NaiveReplaceWords(result, words) ==
    IF Len(words) = 0 THEN result
    ELSE NaiveReplaceWords(NaiveReplaceFrom(result, 1, Head(words)), Tail(words))

\* A faulty convertWordsToNumbers, which replaces the words in the order of
\* the table and without the word boundaries
convertWordsToNumbers_Naive(text) ==
    NaiveReplaceWords(toLowerCase(text),
                      SelectSeq(wordToNumKeys, LAMBDA w : Includes(toLowerCase(text), w)))

\* The loop replaces the words in the order of sortedWords.  A replacement
\* puts digits only, so a word that does not occur in the text before the
\* loop does not occur in it at any iteration, and its replace leaves the
\* text as it is: the loop is run over the words that occur.
convertWordsToNumbers(text) ==
    LET lower == toLowerCase(text)
    IN  ReplaceWords(lower, SelectSeq(sortedWords, LAMBDA w : Includes(lower, w)))

(***************************************************************************)
(* Commands.  A Command is {type, value, feedback}.  The value of a        *)
(* Command is a number, a string, a boolean, absent, or (for a table       *)
(* lookup that hits a property inherited from Object.prototype) an object; *)
(* it is modelled as a record tagged with its kind.                        *)
(***************************************************************************)
NumV(n) == [k |-> "num", n |-> n, s |-> ""]

StrV(s) == [k |-> "str", n |-> 0, s |-> s]

BoolV(b) == [k |-> "bool", n |-> IF b THEN 1 ELSE 0, s |-> ""]

AbsentV == [k |-> "absent", n |-> 0, s |-> ""]

ObjectV == [k |-> "object", n |-> 0, s |-> ""]

Command(type, value, feedback) == [type |-> type, value |-> value, feedback |-> feedback]

\* The lower-case names of the properties every object literal inherits from
\* Object.prototype: table[name] is truthy for them although the table does
\* not list them
InheritedKeys == {"constructor", "__proto__"}

(***************************************************************************)
(* Chunk parser.  The state of one parse: the Commands emitted so far, the *)
(* consumption map, and whether the parse raised an error.  claimed is     *)
(* bookkeeping of the model: claimed[k] is the set of token indices that   *)
(* contributed to commands[k].  Token indices are 1-based here, 0-based in *)
(* the source.                                                             *)
(***************************************************************************)
ParseStart(tokens) ==
    [commands |-> <<>>,
     claimed  |-> <<>>,
     consumed |-> [i \in 1..Len(tokens) |-> FALSE],
     threw    |-> FALSE]

\* A faulty Emit, which sets the slots and pushes nothing
Emit_NoPush(st, cmd, idx) ==
    [st EXCEPT !.consumed = [i \in DOMAIN @ |-> @[i] \/ i \in idx]]

\* A faulty Emit, which puts the Command in front of the list
Emit_Unshift(st, cmd, idx) ==
    [st EXCEPT !.commands = <<cmd>> \o @,
               !.claimed  = <<idx>> \o @,
               !.consumed = [i \in DOMAIN @ |-> @[i] \/ i \in idx]]

\* A faulty Emit, which writes the whole consumption map anew
Emit_Overwrites(st, cmd, idx) ==
    [st EXCEPT !.commands = Append(@, cmd),
               !.claimed  = Append(@, idx),
               !.consumed = [i \in DOMAIN @ |-> i \in idx]]

\* commands.push(cmd) together with consumed[i] = true for every i of idx
Emit(st, cmd, idx) ==
    [st EXCEPT !.commands = Append(@, cmd),
               !.claimed  = Append(@, idx),
               !.consumed = [i \in DOMAIN @ |-> @[i] \/ i \in idx]]

\* commands.push(cmd) of a pass that does not touch the consumption map
EmitOnly(st, cmd, idx) ==
    [st EXCEPT !.commands = Append(@, cmd),
               !.claimed  = Append(@, idx)]

toggles ==
    [ditto |-> [onWords  |-> {"on", "enable", "enabled", "add", "include", "use", "with", "yes"},
                offWords |-> {"off", "disable", "disabled", "remove", "exclude", "no", "without"},
                type     |-> "ditto"],
     pve   |-> [onWords  |-> {"on", "enable", "enabled", "add", "include", "use", "round", "yes"},
                offWords |-> {"off", "disable", "disabled", "remove", "exclude", "no"},
                type     |-> "pve"]]

\* A faulty ToggleBeforeFree, which does not look at the consumption map
ToggleBeforeFree_IgnoresConsumed(tokens, st, i) == i > 1

\* The word before the keyword may decide the toggle
ToggleBeforeFree(tokens, st, i) == i > 1 /\ ~st.consumed[i - 1]

\* The word after the keyword may decide the toggle
ToggleAfterFree(tokens, st, i) == i < Len(tokens) /\ ~st.consumed[i + 1]

\* A faulty ToggleStep, which looks at the word after the keyword first
ToggleStep_AfterFirst(tokens, st, i) ==
    IF st.consumed[i] \/ tokens[i] \notin DOMAIN toggles THEN st
    ELSE LET keyword == tokens[i]
             config  == toggles[keyword]
             on      == Command(config.type, BoolV(TRUE), keyword \o " on")
             off     == Command(config.type, BoolV(FALSE), keyword \o " off")
         IN  IF ToggleAfterFree(tokens, st, i) /\ tokens[i + 1] \in config.onWords
                 THEN Emit(st, on, {i, i + 1})
             ELSE IF ToggleAfterFree(tokens, st, i) /\ tokens[i + 1] \in config.offWords
                 THEN Emit(st, off, {i, i + 1})
             ELSE IF ToggleBeforeFree(tokens, st, i) /\ tokens[i - 1] \in config.onWords
                 THEN Emit(st, on, {i, i - 1})
             ELSE IF ToggleBeforeFree(tokens, st, i) /\ tokens[i - 1] \in config.offWords
                 THEN Emit(st, off, {i, i - 1})
             ELSE st

\* One iteration of the toggle loop
ToggleStep(tokens, st, i) ==
    IF st.consumed[i] \/ tokens[i] \notin DOMAIN toggles THEN st
    ELSE LET keyword == tokens[i]
             config  == toggles[keyword]
             on      == Command(config.type, BoolV(TRUE), keyword \o " on")
             off     == Command(config.type, BoolV(FALSE), keyword \o " off")
         IN  IF ToggleBeforeFree(tokens, st, i) /\ tokens[i - 1] \in config.onWords
                 THEN Emit(st, on, {i, i - 1})
             ELSE IF ToggleBeforeFree(tokens, st, i) /\ tokens[i - 1] \in config.offWords
                 THEN Emit(st, off, {i, i - 1})
             ELSE IF ToggleAfterFree(tokens, st, i) /\ tokens[i + 1] \in config.onWords
                 THEN Emit(st, on, {i, i + 1})
             ELSE IF ToggleAfterFree(tokens, st, i) /\ tokens[i + 1] \in config.offWords
                 THEN Emit(st, off, {i, i + 1})
             ELSE st

RECURSIVE ToggleLoop(_, _, _)
ToggleLoop(tokens, st, i) ==
    IF i > Len(tokens) THEN st
    ELSE ToggleLoop(tokens, ToggleStep(tokens, st, i), i + 1)

TogglePass(tokens, st) == ToggleLoop(tokens, st, 1)

\* tokens[i], undefined (here the empty string) beyond the end
TokenAt(tokens, i) == IF i \in 1..Len(tokens) THEN tokens[i] ELSE ""

\* One iteration of the wild loop
WildStep(tokens, st, i) ==
    IF st.consumed[i] THEN st
    ELSE IF tokens[i] = "wild"
         THEN Emit(st, Command("wild", BoolV(TRUE), "Wild target"),
                   {i} \cup {j \in {i - 1, i + 1} :
                                /\ j \in 1..Len(tokens)
                                /\ tokens[j] = "target"
                                /\ ~st.consumed[j]})
    ELSE IF /\ tokens[i] = "target"
            /\ TokenAt(tokens, i + 1) = "is"
            /\ TokenAt(tokens, i + 2) = "wild"
         THEN Emit(st, Command("wild", BoolV(TRUE), "Wild target"), {i, i + 1, i + 2})
    ELSE st

RECURSIVE WildLoop(_, _, _)
WildLoop(tokens, st, i) ==
    IF i > Len(tokens) THEN st
    ELSE WildLoop(tokens, WildStep(tokens, st, i), i + 1)

WildPass(tokens, st) == WildLoop(tokens, st, 1)

(***************************************************************************)
(* Keyword + number pass.                                                  *)
(***************************************************************************)
\* A faulty validateLevel, without the upper limit
validateLevel_NoUpperLimit(n) == n >= 1

validateLevel(n) == n >= 1 /\ n <= 9

LevelSpec == [type |-> "level", validated |-> TRUE, pre |-> "Level ", post |-> ""]

ScoutSpec == [type |-> "scouting", validated |-> FALSE, pre |-> "Scout ", post |-> ""]

BenchSpec == [type |-> "bench", validated |-> FALSE, pre |-> "Bench ", post |-> ""]

CopiesSpec == [type |-> "copies", validated |-> FALSE, pre |-> "Own ", post |-> ""]

RefreshSpec == [type |-> "refreshes", validated |-> FALSE, pre |-> "", post |-> " refreshes"]

numberCommands ==
    [level |-> LevelSpec, lvl |-> LevelSpec, lv |-> LevelSpec,
     scout |-> ScoutSpec, scouted |-> ScoutSpec, scouting |-> ScoutSpec,
     seen |-> ScoutSpec, taken |-> ScoutSpec, opponent |-> ScoutSpec,
     bench |-> BenchSpec, benched |-> BenchSpec,
     copy |-> CopiesSpec, copies |-> CopiesSpec, have |-> CopiesSpec,
     own |-> CopiesSpec, got |-> CopiesSpec, holding |-> CopiesSpec,
     refresh |-> RefreshSpec, refreshes |-> RefreshSpec,
     roll |-> RefreshSpec, rolls |-> RefreshSpec]

\* if (numberCommands[token]): true of the listed keywords and of the
\* inherited property names
IsNumberKeyword(token) == token \in DOMAIN numberCommands \/ token \in InheritedKeys

\* String(n) of a template literal
NumToString(n) == ToString(n)

NumberFeedback(cmd, n) == cmd.pre \o NumToString(n) \o cmd.post

\* The indices searched after the keyword, in search order
ForwardRange(tokens, i) == SelectSeq(<<i + 1, i + 2>>, LAMBDA j : j <= Len(tokens))

\* The indices searched before the keyword, in search order
BackwardRange(tokens, i) == SelectSeq(<<i - 1, i - 2>>, LAMBDA j : j >= 1)

\* The first index of range that is unconsumed and holds an integer; 0 if none
RECURSIVE FirstNumber(_, _, _)
FirstNumber(tokens, st, range) ==
    IF Len(range) = 0 THEN 0
    ELSE IF ~st.consumed[Head(range)] /\ ~isNaN(parseInt(tokens[Head(range)]))
         THEN Head(range)
         ELSE FirstNumber(tokens, st, Tail(range))

\* A faulty NumberIndex, which prefers the number before the keyword
NumberIndex_BackwardFirst(tokens, st, i) ==
    LET bwd == FirstNumber(tokens, st, BackwardRange(tokens, i))
    IN  IF bwd # 0 THEN bwd
        ELSE FirstNumber(tokens, st, ForwardRange(tokens, i))

\* numIndex of the source (0 for -1): the number after the keyword is
\* preferred to the number before it
NumberIndex(tokens, st, i) ==
    LET fwd == FirstNumber(tokens, st, ForwardRange(tokens, i))
    IN  IF fwd # 0 THEN fwd
        ELSE FirstNumber(tokens, st, BackwardRange(tokens, i))

\* A faulty NumberStep, which marks the keyword and the number consumed
\* before it validates the number
NumberStep_ConsumesRejected(tokens, st, i) ==
    IF st.consumed[i] \/ ~IsNumberKeyword(tokens[i]) THEN st
    ELSE LET numIndex == NumberIndex(tokens, st, i)
             num      == parseInt(tokens[numIndex]).n
         IN  IF numIndex = 0 THEN st
             ELSE IF tokens[i] \in InheritedKeys THEN [st EXCEPT !.threw = TRUE]
             ELSE LET cmd == numberCommands[tokens[i]]
                  IN  IF ~cmd.validated \/ validateLevel(num)
                      THEN Emit(st, Command(cmd.type, NumV(num), NumberFeedback(cmd, num)),
                                {i, numIndex})
                      ELSE [st EXCEPT !.consumed =
                                [p \in DOMAIN @ |-> @[p] \/ p \in {i, numIndex}]]

\* One iteration of the keyword + number loop.  For an inherited property
\* name the looked-up object has neither validate nor feedback, so the
\* call cmd.feedback(num) raises a TypeError
NumberStep(tokens, st, i) ==
    IF st.consumed[i] \/ ~IsNumberKeyword(tokens[i]) THEN st
    ELSE LET numIndex == NumberIndex(tokens, st, i)
             num      == parseInt(tokens[numIndex]).n
         IN  IF numIndex = 0 THEN st
             ELSE IF tokens[i] \in InheritedKeys THEN [st EXCEPT !.threw = TRUE]
             ELSE LET cmd == numberCommands[tokens[i]]
                  IN  IF ~cmd.validated \/ validateLevel(num)
                      THEN Emit(st, Command(cmd.type, NumV(num), NumberFeedback(cmd, num)),
                                {i, numIndex})
                      ELSE st

RECURSIVE NumberLoop(_, _, _)
NumberLoop(tokens, st, i) ==
    IF i > Len(tokens) \/ st.threw THEN st
    ELSE NumberLoop(tokens, NumberStep(tokens, st, i), i + 1)

NumberPass(tokens, st) == NumberLoop(tokens, st, 1)

(***************************************************************************)
(* Rarity, evolution, level up/down, clear and orphan number passes.       *)
(***************************************************************************)
rarities ==
    [common |-> "common",
     uncommon |-> "uncommon", uc |-> "uncommon", green |-> "uncommon",
     rare |-> "rare", blue |-> "rare",
     epic |-> "epic", purple |-> "epic",
     ultra |-> "ultra", legendary |-> "ultra", red |-> "ultra"]

\* if (rarities[tokens[i]])
IsRarityWord(token) == token \in DOMAIN rarities \/ token \in InheritedKeys

RarityCommand(token) ==
    IF token \in DOMAIN rarities
    THEN Command("rarity", StrV(rarities[token]), rarities[token])
    ELSE Command("rarity", ObjectV, "[object]")

\* The loop stops at the first unconsumed rarity word (break)
RECURSIVE RarityLoop(_, _, _)
RarityLoop(tokens, st, i) ==
    IF i > Len(tokens) THEN st
    ELSE IF ~st.consumed[i] /\ IsRarityWord(tokens[i])
         THEN Emit(st, RarityCommand(tokens[i]), {i})
         ELSE RarityLoop(tokens, st, i + 1)

RarityPass(tokens, st) == RarityLoop(tokens, st, 1)

\* A faulty EvolutionStep, which does not look at the consumption map
EvolutionStep_IgnoresConsumed(tokens, st, i) ==
    LET r == parseInt(tokens[i])
    IN  IF /\ ~isNaN(r)
           /\ r.n \in {2, 3}
           /\ tokens[i + 1] \in {"star", "stars"}
        THEN Emit(st, Command("evolution",
                              StrV(IF r.n = 2 THEN "twoStar" ELSE "threeStar"),
                              NumToString(r.n) \o "*"),
                  {i, i + 1})
        ELSE st

\* One iteration of the evolution loop
EvolutionStep(tokens, st, i) ==
    IF st.consumed[i] \/ st.consumed[i + 1] THEN st
    ELSE LET r == parseInt(tokens[i])
         IN  IF /\ ~isNaN(r)
                /\ r.n \in {2, 3}
                /\ tokens[i + 1] \in {"star", "stars"}
             THEN Emit(st, Command("evolution",
                                   StrV(IF r.n = 2 THEN "twoStar" ELSE "threeStar"),
                                   NumToString(r.n) \o "*"),   \* the star sign
                       {i, i + 1})
             ELSE st

RECURSIVE EvolutionLoop(_, _, _)
EvolutionLoop(tokens, st, i) ==
    IF i > Len(tokens) - 1 THEN st
    ELSE EvolutionLoop(tokens, EvolutionStep(tokens, st, i), i + 1)

EvolutionPass(tokens, st) == EvolutionLoop(tokens, st, 1)

\* /level\s*word/.test(text): "level", any white space, then word
LevelPhraseTest(text, word) ==
    \E p \in 1..Len(text) :
        /\ StartsWith(SubSeq(text, p, Len(text)), "level")
        /\ StartsWith(TrimStart(SubSeq(text, p + 5, Len(text))), word)

\* Bookkeeping: the tokens the leftmost match of /level\s*word/ lies in.  A
\* match lies inside one token, or ends one token and starts the next.
PhraseMatchAt(tokens, i, word) ==
    \/ Includes(tokens[i], "level" \o word)
    \/ i < Len(tokens) /\ EndsWith(tokens[i], "level") /\ StartsWith(tokens[i + 1], word)

PhraseTokens(tokens, word) ==
    LET hits == {i \in 1..Len(tokens) : PhraseMatchAt(tokens, i, word)}
        first == CHOOSE i \in hits : \A j \in hits : i <= j
    IN  IF hits = {} THEN {}
        ELSE IF Includes(tokens[first], "level" \o word) THEN {first}
        ELSE {first, first + 1}

LevelUpDownPass(original, tokens, st) ==
    LET up == IF LevelPhraseTest(original, "up")
              THEN EmitOnly(st, Command("level", StrV("up"), "Level up"),
                            PhraseTokens(tokens, "up"))
              ELSE st
    IN  IF LevelPhraseTest(original, "down")
        THEN EmitOnly(up, Command("level", StrV("down"), "Level down"),
                      PhraseTokens(tokens, "down"))
        ELSE up

\* The loop stops at the first unconsumed "clear" or "reset" (break)
RECURSIVE ClearLoop(_, _, _)
ClearLoop(tokens, st, i) ==
    IF i > Len(tokens) THEN st
    ELSE IF ~st.consumed[i] /\ tokens[i] \in {"clear", "reset"}
         THEN Emit(st, Command("clear", AbsentV, "Cleared"), {i})
         ELSE ClearLoop(tokens, st, i + 1)

ClearPass(tokens, st) == ClearLoop(tokens, st, 1)

\* A faulty OrphanLoop, which tests !(n < 1 || n > 9) without isNaN: true of
\* NaN
RECURSIVE OrphanLoop_NoNaNTest(_, _, _)
OrphanLoop_NoNaNTest(tokens, st, i) ==
    IF i > Len(tokens) THEN st
    ELSE LET r == parseInt(tokens[i])
         IN  IF isNaN(r) \/ (r.n >= 1 /\ r.n <= 9)
             THEN EmitOnly(st, Command("level", NumV(r.n), "Level " \o NumToString(r.n)), {i})
             ELSE OrphanLoop_NoNaNTest(tokens, st, i + 1)

\* The orphan number loop runs over all tokens, consumed or not, and stops at
\* the first integer in 1..9 (break)
RECURSIVE OrphanLoop(_, _, _)
OrphanLoop(tokens, st, i) ==
    IF i > Len(tokens) THEN st
    ELSE LET r == parseInt(tokens[i])
         IN  IF ~isNaN(r) /\ r.n >= 1 /\ r.n <= 9
             THEN EmitOnly(st, Command("level", NumV(r.n), "Level " \o NumToString(r.n)), {i})
             ELSE OrphanLoop(tokens, st, i + 1)

\* A faulty FallbackApplies, which lets the fallback run after every parse
FallbackApplies_Always(st) == TRUE

\* if (commands.length === 0)
FallbackApplies(st) == Len(st.commands) = 0

FallbackPass(tokens, st) ==
    IF FallbackApplies(st) THEN OrphanLoop(tokens, st, 1) ELSE st

(***************************************************************************)
(* parseCommand(text): the passes in their fixed order.  An error raised   *)
(* in the keyword + number pass ends the parse: the result has threw set   *)
(* and no Command list is returned.                                        *)
(***************************************************************************)
Original(text) == trim(toLowerCase(text))

Tokenize(text) == split(Original(text))

PassOrder == <<"toggle", "wild", "number", "rarity", "evolution", "levelupdown",
               "clear", "fallback">>

ApplyPass(name, original, tokens, st) ==
    CASE name = "toggle"      -> TogglePass(tokens, st)
      [] name = "wild"        -> WildPass(tokens, st)
      [] name = "number"      -> NumberPass(tokens, st)
      [] name = "rarity"      -> RarityPass(tokens, st)
      [] name = "evolution"   -> EvolutionPass(tokens, st)
      [] name = "levelupdown" -> LevelUpDownPass(original, tokens, st)
      [] name = "clear"       -> ClearPass(tokens, st)
      [] name = "fallback"    -> FallbackPass(tokens, st)

RECURSIVE RunPasses(_, _, _, _)
RunPasses(names, original, tokens, st) ==
    IF Len(names) = 0 \/ st.threw THEN st
    ELSE RunPasses(Tail(names), original, tokens,
                   ApplyPass(Head(names), original, tokens, st))

parseCommand(text) ==
    CHOOSE r \in {RunPasses(PassOrder, Original(t), Tokenize(t), ParseStart(Tokenize(t))) :
                    t \in {text}} : TRUE

(***************************************************************************)
(* Dispatch: executeCommand and the controls of the host page.             *)
(*                                                                         *)
(* A page tells whether window.calculatorState exists (state) and its      *)
(* level, which controls the lookups of simSelect, simInput, simCheckbox   *)
(* and of the 'Clear All' button find (controls), and which checkboxes are *)
(* checked.  An effect is one write to a control.                          *)
(***************************************************************************)
Controls ==
    {"select0", "select1", "select2", "copies owned", "scouting", "bench",
     "refreshes", "ditto", "pve", "wild", "clear"}

Effect(control, value) == [control |-> control, value |-> value]

Outcome(effects, page) == [effects |-> effects, page |-> page, threw |-> FALSE]

\* A faulty MissingTarget, which raises an error
MissingTarget_Throws(page) == [effects |-> <<>>, page |-> page, threw |-> TRUE]

\* The target of a Command is not on the page: nothing is written (a
\* warning is logged for an input and a checkbox)
MissingTarget(page) == Outcome(<<>>, page)

\* simSelect(index, value)
simSelect(index, value, page) ==
    IF index \in page.controls
    THEN Outcome(<<Effect(index, value)>>, page)
    ELSE MissingTarget(page)

\* simInput(hint, value)
simInput(hint, value, page) ==
    IF hint \in page.controls
    THEN Outcome(<<Effect(hint, value)>>, page)
    ELSE MissingTarget(page)

\* simCheckbox(hint, checked): the target is clicked when its state differs
simCheckbox(hint, checked, page) ==
    IF hint \in page.controls
    THEN IF BoolV(hint \in page.checked) # checked
         THEN Outcome(<<Effect(hint, checked)>>,
                      [page EXCEPT !.checked =
                          IF hint \in @ THEN @ \ {hint} ELSE @ \cup {hint}])
         ELSE Outcome(<<>>, page)
    ELSE MissingTarget(page)

\* const lvl of the case 'level'
TargetLevel(value, page) ==
    IF value = StrV("up") THEN NumV(Min({9, page.level + 1}))
    ELSE IF value = StrV("down") THEN NumV(Max({1, page.level - 1}))
    ELSE value

\* executeCommand(cmd) on a page
executeCommand(cmd, page) ==
    IF ~page.state THEN Outcome(<<>>, page)
    ELSE IF cmd.type = "level" THEN simSelect("select0", TargetLevel(cmd.value, page), page)
    ELSE IF cmd.type = "rarity" THEN simSelect("select1", cmd.value, page)
    ELSE IF cmd.type = "evolution" THEN simSelect("select2", cmd.value, page)
    ELSE IF cmd.type = "copies" THEN simInput("copies owned", cmd.value, page)
    ELSE IF cmd.type \in {"scouting", "bench", "refreshes"}
         THEN simInput(cmd.type, cmd.value, page)
    ELSE IF cmd.type \in {"ditto", "pve", "wild"}
         THEN simCheckbox(cmd.type, cmd.value, page)
    ELSE IF cmd.type = "clear"
         THEN IF "clear" \in page.controls
              THEN Outcome(<<Effect("clear", AbsentV)>>, page)
              ELSE MissingTarget(page)
    ELSE Outcome(<<>>, page)

\* cmds.forEach(executeCommand) from the i-th Command on: calls lists the
\* Commands handed to executeCommand so far, effects the writes made; an
\* error raised by a call ends the loop
RECURSIVE forEach(_, _, _)
forEach(cmds, i, log) ==
    IF i > Len(cmds) \/ log.threw THEN log
    ELSE LET out == executeCommand(cmds[i], log.page)
         IN forEach(cmds, i + 1,
                    [calls |-> Append(log.calls, cmds[i]),
                     effects |-> log.effects \o out.effects,
                     page |-> out.page, threw |-> out.threw])

\* commands.forEach(executeCommand) of processCommand and of the test entry
\* point, on a page
Dispatch(cmds, page) ==
    CHOOSE log \in {forEach(c, 1, [calls |-> <<>>, effects |-> <<>>, page |-> p,
                                    threw |-> FALSE]) : c \in {cmds}, p \in {page}} : TRUE

(***************************************************************************)
(* Confidence gate, dispatch and history (processCommand).                 *)
(*                                                                         *)
(* Three variants of the engine exist: "v5", the chunk parser engine       *)
(* modelled in full here; "vc", src/voice-control.js; and "legacy", the    *)
(* last engine of src/analytics.js.  Of the last two only processCommand   *)
(* is modelled, and the result of their regular expression parsers is an   *)
(* input of it.                                                            *)
(***************************************************************************)
Variants == {"v5", "vc", "legacy"}

ThresholdV5 == 35

ThresholdVC == 60

ThresholdLegacy == 60

\* config.confidenceThreshold, in hundredths
confidenceThreshold(v) ==
    CASE v = "v5" -> ThresholdV5
      [] v = "vc" -> ThresholdVC
      [] v = "legacy" -> ThresholdLegacy

\* A faulty GateRejects, which lets every confidence through
GateRejects_Never(confidence, threshold) == FALSE

\* A faulty GateRejects, which rejects the threshold itself
GateRejects_Inclusive(confidence, threshold) == confidence <= threshold

\* if (confidence < config.confidenceThreshold)
GateRejects(confidence, threshold) == confidence < threshold

\* A faulty IsUnknown, which takes an empty Command list for understood
IsUnknown_Never(cmds) == FALSE

\* if (commands.length === 0)
IsUnknown(cmds) == Len(cmds) = 0

HistoryCapacity == 10

\* The entry pushed for a transcript; Date.now() is modelled by the ordinal
\* of the processCommand invocation
HistoryEntry(v, t, cmds, now) ==
    IF v = "vc"
    THEN [transcript |-> t, commands |-> cmds, timestamp |-> now]
    ELSE [text |-> t, commands |-> cmds, time |-> now]

EntryTime(e) == IF "timestamp" \in DOMAIN e THEN e.timestamp ELSE e.time

EntryText(e) == IF "transcript" \in DOMAIN e THEN e.transcript ELSE e.text

\* A faulty PopOverflow, which never drops an entry
PopOverflow_Never(history) == history

\* if (commandHistory.length > 10) commandHistory.pop()
PopOverflow(history) ==
    IF Len(history) > HistoryCapacity THEN SubSeq(history, 1, Len(history) - 1) ELSE history

\* A faulty Unshift, which puts the entry behind the others
Unshift_AtEnd(history, entry) == Append(history, entry)

\* commandHistory.unshift(entry)
Unshift(history, entry) == <<entry>> \o history

\* The unshift followed by the pop
PushHistory(history, entry) == PopOverflow(Unshift(history, entry))

StatusTryAgain(v) == "Try again?"

StatusUnknown(v) == IF v = "vc" THEN "Unknown command" ELSE "Unknown"

StatusDone(v) == IF v = "vc" THEN "Executed" ELSE "Done"

\* What the variant hands to its parseCommand
ParserInput(v, t) ==
    CASE v = "v5" -> convertWordsToNumbers(t)
      [] v = "vc" -> toLowerCase(t)
      [] v = "legacy" -> t

\* The result of the variant's parseCommand: computed for "v5"; `given`, an
\* input, for the other variants
ParseResult(v, t, given) ==
    IF v = "v5" THEN parseCommand(ParserInput(v, t))
    ELSE [commands |-> given, threw |-> FALSE]

\* commands.forEach(cmd => executeCommand(cmd)) of variant v: computed for
\* "v5"; for the other variants every Command is handed over and the writes
\* are left out
DispatchOf(v, cmds, page) ==
    IF v = "v5" THEN Dispatch(cmds, page)
    ELSE [calls |-> cmds, effects |-> <<>>, page |-> page, threw |-> FALSE]

\* processCommand past its confidence gate, r being what parseCommand gave:
\* an error escapes, or nothing was understood, or the Commands are
\* dispatched in order and the history gets a new first entry.
Accepted(v, t, r, st, history, page, now) ==
    IF r.threw
    THEN [status |-> st, history |-> history, dispatched |-> <<>>, effects |-> <<>>,
          parsed |-> <<ParserInput(v, t)>>, threw |-> TRUE]
    ELSE IF IsUnknown(r.commands)
    THEN [status |-> StatusUnknown(v), history |-> history, dispatched |-> <<>>,
          effects |-> <<>>, parsed |-> <<ParserInput(v, t)>>, threw |-> FALSE]
    ELSE LET log == DispatchOf(v, r.commands, page)
         IN  IF log.threw
             THEN [status |-> st, history |-> history, dispatched |-> log.calls,
                   effects |-> log.effects, parsed |-> <<ParserInput(v, t)>>,
                   threw |-> TRUE]
             ELSE [status |-> StatusDone(v),
                   history |-> PushHistory(history, HistoryEntry(v, t, r.commands, now)),
                   dispatched |-> log.calls, effects |-> log.effects,
                   parsed |-> <<ParserInput(v, t)>>, threw |-> FALSE]

\* processCommand(text, confidence) of variant v, on the status `st`, the
\* history `history` and the page `page`, as invocation number `now`.  The
\* result tells the new status and history, the Commands handed to
\* executeCommand (in order) and the writes it made, the texts handed to
\* parseCommand, and whether an error escaped.
processCommand(v, t, confidence, given, st, history, page, now) ==
    IF GateRejects(confidence, confidenceThreshold(v))
    THEN [status |-> StatusTryAgain(v), history |-> history, dispatched |-> <<>>,
          effects |-> <<>>, parsed |-> <<>>, threw |-> FALSE]
    ELSE CHOOSE o \in {Accepted(v, t, r, st, history, page, now) :
                         r \in {ParseResult(v, t, given)}} : TRUE

(***************************************************************************)
(* State.                                                                  *)
(*                                                                         *)
(* The engine: variant is the engine variant; isListening, fullTranscript, *)
(* lastConfidence, commandHistory and timerInterval are its variables of   *)
(* the same names (timerInterval is a handle, 0 for null); status is       *)
(* status.textContent and transcriptVisible the 'visible' class of the     *)
(* transcript element.  The other style classes, the elapsed-time text and *)
(* the transcript text are display only and left out.                      *)
(*                                                                         *)
(* The environment: rec is the speech recognizer (phase "idle" outside a   *)
(* session; started once its start event is delivered; finals the number   *)
(* of final results it has delivered so far; raised "start" or "stop" when *)
(* that method raised an error and no event or accepted call has followed) *)
(* intervals the set of running setInterval handles, timers the numbers of *)
(* pending setTimeout callbacks (reset for resetUI after an error, finish  *)
(* for the callback onEnd schedules).                                      *)
(*                                                                         *)
(* Bookkeeping: starts counts the calls of recognition.start(),            *)
(* invocations those of processCommand and understood those of them that   *)
(* handed Commands to executeCommand; lastOp names the handler that ran    *)
(* last; lastCall describes the last processCommand or test invocation     *)
(* since the current session began; session lists the final fragments, the *)
(* processCommand arguments and the parseCommand arguments of the current  *)
(* session; returnedHistory tells whether a caller has been given the     *)
(* result of getHistory() and what it has seen in it.                      *)
(*                                                                         *)
(* One parse walked pass by pass, as window.voiceControl.test(text) runs   *)
(* it: utterance is the sequence of pieces the text handed in is made of,  *)
(* pc the position in the parse, text the argument of parseCommand, and    *)
(* tokens, consumed, commands the locals of parseCommand (claimed is the   *)
(* bookkeeping of Emit).                                                   *)
(***************************************************************************)
VARIABLES variant, isListening, fullTranscript, lastConfidence, commandHistory,
          timerInterval, status, transcriptVisible,
          rec, intervals, timers,
          starts, invocations, understood, lastOp, lastCall, session,
          returnedHistory,
          utterance, pc, text, tokens, consumed, commands, claimed

engineVars == <<variant, isListening, fullTranscript, lastConfidence, commandHistory,
                timerInterval, status, transcriptVisible>>

envVars == <<rec, intervals, timers>>

bookVars == <<starts, invocations, understood, lastOp, lastCall, session, returnedHistory>>

parseVars == <<utterance, pc, text, tokens, consumed, commands, claimed>>

vars == <<engineVars, envVars, bookVars, parseVars>>

(***************************************************************************)
(* Bounds and inputs of the sessions.                                      *)
(***************************************************************************)
\* The calls of recognition.start() in a run
MaxSessions == 2

\* The final results the recognizer delivers in a run
MaxFinals == 2

\* The results of one result event
MaxResults == 1

\* lastConfidence = 0.9
InitialConfidence == 90

\* The confidences of final results, in hundredths
Confidences == {34, 90}

FragmentTexts == {"level 7", "hello"}

InterimTexts == {"lev"}

\* One result of a result event: result[0].transcript, result.isFinal and
\* result[0].confidence (an interim result carries no confidence)
Results ==
    {r \in [transcript : FragmentTexts, isFinal : {TRUE}, confidence : Confidences] :
        r.transcript = "hello" => r.confidence = InitialConfidence}
        \cup [transcript : InterimTexts, isFinal : {FALSE}, confidence : {0}]

\* event.results from event.resultIndex on
ResultEvents == UNION {[1..k -> Results] : k \in 1..MaxResults}

\* event.error
ErrorKinds == {"no-speech", "not-allowed"}

\* The calculator page with every control, its pve checkbox checked
FullPage == [state |-> TRUE, level |-> 9, controls |-> Controls, checked |-> {"pve"}]

\* The pages the engine runs on: the calculator page, one without its level
\* select, and one without window.calculatorState
Pages ==
    {FullPage,
     [FullPage EXCEPT !.controls = @ \ {"select0"}],
     [FullPage EXCEPT !.state = FALSE]}

\* The pages the sessions run on
SessionPages == {FullPage, [FullPage EXCEPT !.controls = @ \ {"select0"}]}

\* The page of a call as lastCall keeps it: the page executeCommand ran on,
\* FullPage when it did not run
PageSeen(dispatched, page) == IF dispatched = <<>> THEN FullPage ELSE page

NoCall ==
    [text |-> "", confidence |-> 0, page |-> FullPage, parsed |-> <<>>,
     dispatched |-> <<>>, effects |-> <<>>, threw |-> FALSE]

NoSession == [finals |-> <<>>, calls |-> <<>>, parsed |-> <<>>]

EngineInit(v) ==
    /\ variant = v
    /\ isListening = FALSE
    /\ fullTranscript = ""
    /\ lastConfidence = InitialConfidence
    /\ commandHistory = <<>>
    /\ timerInterval = 0
    /\ status = "Ready"
    /\ transcriptVisible = FALSE
    /\ rec = [phase |-> "idle", started |-> FALSE, finals |-> 0, raised |-> ""]
    /\ intervals = {}
    /\ timers = [reset |-> 0, finish |-> 0]
    /\ starts = 0
    /\ invocations = 0
    /\ understood = 0
    /\ lastOp = "init"
    /\ lastCall = NoCall
    /\ session = NoSession
    /\ returnedHistory = [given |-> FALSE, seen |-> <<>>]

\* No parse is being walked
ParseIdle ==
    /\ utterance = <<>>
    /\ pc = "idle"
    /\ text = ""
    /\ tokens = <<>>
    /\ consumed = <<>>
    /\ commands = <<>>
    /\ claimed = <<>>

Init == EngineInit("v5") /\ ParseIdle

(***************************************************************************)
(* Capture session handlers of the v5 engine.                              *)
(***************************************************************************)
\* A faulty StartGuard, which lets every call through
StartGuard_Open == FALSE

\* if (isListening) return
StartGuard == isListening

\* startListening().  recognition.start() raises an error when the recognizer
\* is already started, and may raise one for a reason of its own.
StartListening ==
    /\ lastOp' = "startListening"
    /\ IF StartGuard
       THEN UNCHANGED <<engineVars, envVars, starts, invocations, understood, lastCall,
                        session, parseVars, returnedHistory>>
       ELSE /\ starts < MaxSessions
            /\ starts' = starts + 1
            /\ fullTranscript' = ""
            /\ \E throws \in BOOLEAN :
                  /\ rec.phase # "idle" => throws
                  /\ IF throws
                     THEN /\ rec' = [rec EXCEPT !.raised = "start"]
                          /\ UNCHANGED <<isListening, timerInterval, intervals, session,
                                         lastCall>>
                     ELSE /\ rec' = [rec EXCEPT !.phase = "running", !.started = FALSE,
                                                !.raised = ""]
                          /\ isListening' = TRUE
                          /\ timerInterval' = starts + 1
                          /\ intervals' = intervals \cup {starts + 1}
                          /\ session' = NoSession
                          /\ lastCall' = NoCall
            /\ UNCHANGED <<variant, lastConfidence, commandHistory, status,
                           transcriptVisible, timers, invocations, understood,
                           parseVars, returnedHistory>>

\* if (!isListening) return
StopGuard == ~isListening

\* stopListening().  recognition.stop() may raise an error; clearInterval is
\* then skipped.
StopListening ==
    /\ lastOp' = "stopListening"
    /\ IF StopGuard
       THEN UNCHANGED <<engineVars, envVars, starts, invocations, understood, lastCall,
                        session, parseVars, returnedHistory>>
       ELSE /\ \E throws \in BOOLEAN :
                  IF throws
                  THEN /\ rec' = [rec EXCEPT !.raised = "stop"]
                       /\ UNCHANGED intervals
                  ELSE /\ rec' = [rec EXCEPT
                                     !.phase = IF @ = "running" THEN "stopping" ELSE @,
                                     !.raised = ""]
                       /\ intervals' = intervals \ {timerInterval}
            /\ UNCHANGED <<engineVars, timers, starts, invocations, understood, lastCall,
                           session, parseVars, returnedHistory>>

\* onStart: the recognizer's start event
OnStart ==
    /\ rec.phase # "idle"
    /\ ~rec.started
    /\ rec' = [rec EXCEPT !.started = TRUE, !.raised = ""]
    /\ status' = "Listening..."
    /\ transcriptVisible' = TRUE
    /\ lastOp' = "onStart"
    /\ UNCHANGED <<variant, isListening, fullTranscript, lastConfidence, commandHistory,
                   timerInterval, intervals, timers, starts, invocations, understood,
                   lastCall, session, parseVars, returnedHistory>>

\* A faulty FinalTranscript, which takes the interim results too
FinalTranscript_WithInterim(results) ==
    Concat([i \in 1..Len(results) |-> results[i].transcript \o " "])

\* finalTranscript of onResult: the final results, each followed by a space
FinalTranscript(results) ==
    Concat([i \in 1..Len(results) |->
               IF results[i].isFinal THEN results[i].transcript \o " " ELSE ""])

FinalResults(results) == SelectSeq(results, LAMBDA r : r.isFinal)

\* A faulty ConfidenceAfter, which keeps the lowest confidence seen
ConfidenceAfter_Lowest(results, confidence) ==
    IF Len(FinalResults(results)) = 0 THEN confidence
    ELSE Min({confidence, FinalResults(results)[Len(FinalResults(results))].confidence})

\* lastConfidence after the loop of onResult
ConfidenceAfter(results, confidence) ==
    IF Len(FinalResults(results)) = 0 THEN confidence
    ELSE FinalResults(results)[Len(FinalResults(results))].confidence

\* onResult(event): a result event of the running session, one of events
OnResultOf(events) ==
    /\ rec.phase \in {"running", "stopping"}
    /\ rec.started
    /\ \E results \in events :
          /\ rec.finals + Len(FinalResults(results)) <= MaxFinals
          /\ rec' = [rec EXCEPT !.finals = @ + Len(FinalResults(results)), !.raised = ""]
          /\ fullTranscript' = fullTranscript \o FinalTranscript(results)
          /\ lastConfidence' = ConfidenceAfter(results, lastConfidence)
          /\ session' = [session EXCEPT
                            !.finals = @ \o [i \in 1..Len(FinalResults(results)) |->
                                                FinalResults(results)[i].transcript]]
    /\ lastOp' = "onResult"
    /\ UNCHANGED <<variant, isListening, commandHistory, timerInterval, status,
                   transcriptVisible, intervals, timers, starts, invocations, understood,
                   lastCall, parseVars, returnedHistory>>

OnResult == OnResultOf(ResultEvents)

\* onError(event): the recognizer's error event; the end event follows it
OnError ==
    /\ rec.phase \in {"running", "stopping"}
    /\ \E error \in ErrorKinds :
          IF error = "no-speech"
          THEN /\ status' = "No speech detected"
               /\ UNCHANGED timers
          ELSE /\ status' = "Error: " \o error
               /\ timers' = [timers EXCEPT !.reset = @ + 1]
    /\ rec' = [rec EXCEPT !.phase = "failed", !.raised = ""]
    /\ lastOp' = "onError"
    /\ UNCHANGED <<variant, isListening, fullTranscript, lastConfidence, commandHistory,
                   timerInterval, transcriptVisible, intervals, starts, invocations,
                   understood, lastCall, session, parseVars, returnedHistory>>

\* onEnd: the recognizer's end event.  An error escaping processCommand ends
\* the handler at once: fullTranscript is not emptied and no callback is
\* scheduled.
OnEnd ==
    /\ rec.phase # "idle"
    /\ rec' = [rec EXCEPT !.phase = "idle", !.started = FALSE, !.raised = ""]
    /\ isListening' = FALSE
    /\ intervals' = intervals \ {timerInterval}
    /\ lastOp' = "onEnd"
    /\ \E finalText \in {trim(fullTranscript)} :
          IF finalText # ""
          THEN \E page \in SessionPages :
               \E res \in {processCommand("v5", finalText, lastConfidence, <<>>,
                                          "Processing...", commandHistory, page,
                                          invocations + 1)} :
                  /\ invocations' = invocations + 1
                  /\ status' = res.status
                  /\ commandHistory' = res.history
                  /\ understood' = IF res.dispatched # <<>> THEN understood + 1 ELSE understood
                  /\ lastCall' = [text |-> finalText, confidence |-> lastConfidence,
                                  page |-> PageSeen(res.dispatched, page),
                                  parsed |-> res.parsed,
                                  dispatched |-> res.dispatched,
                                  effects |-> res.effects, threw |-> res.threw]
                  /\ session' = [session EXCEPT !.calls = Append(@, finalText),
                                                !.parsed = @ \o res.parsed]
                  /\ IF res.threw
                     THEN UNCHANGED <<fullTranscript, timers>>
                     ELSE /\ fullTranscript' = ""
                          /\ timers' = [timers EXCEPT !.finish = @ + 1]
          ELSE /\ status' = "No input"
               /\ fullTranscript' = ""
               /\ timers' = [timers EXCEPT !.finish = @ + 1]
               /\ UNCHANGED <<commandHistory, invocations, understood, lastCall, session>>
    /\ UNCHANGED <<variant, lastConfidence, timerInterval, transcriptVisible, starts,
                   parseVars, returnedHistory>>

\* resetUI, run by the callback onError schedules
ResetTimer ==
    /\ timers.reset > 0
    /\ timers' = [timers EXCEPT !.reset = @ - 1]
    /\ status' = "Ready"
    /\ lastOp' = "resetUI"
    /\ UNCHANGED <<variant, isListening, fullTranscript, lastConfidence, commandHistory,
                   timerInterval, transcriptVisible, rec, intervals, starts, invocations,
                   understood, lastCall, session, parseVars, returnedHistory>>

\* The callback onEnd schedules
EndTimer ==
    /\ timers.finish > 0
    /\ timers' = [timers EXCEPT !.finish = @ - 1]
    /\ IF ~isListening
       THEN /\ transcriptVisible' = FALSE
            /\ status' = "Ready"
       ELSE UNCHANGED <<transcriptVisible, status>>
    /\ lastOp' = "endTimer"
    /\ UNCHANGED <<variant, isListening, fullTranscript, lastConfidence, commandHistory,
                   timerInterval, rec, intervals, starts, invocations, understood, lastCall,
                   session, parseVars, returnedHistory>>

Next ==
    \/ StartListening
    \/ StopListening
    \/ OnStart
    \/ OnResult
    \/ OnError
    \/ OnEnd
    \/ ResetTimer
    \/ EndTimer

Spec == Init /\ [][Next]_vars

\* The recognizer owes the end event: recognition.continuous is true, so a
\* session ends once stop() was accepted or an error event was delivered
EndOwed == rec.phase \in {"stopping", "failed"}

\* The sessions with their scheduling: the pending setTimeout callbacks
\* run, and the recognizer delivers the end event it owes.  OnEnd is enabled
\* whenever EndOwed holds and is the one action that ends EndOwed, so weak
\* fairness of the OnEnd steps taken under EndOwed is []<>~EndOwed.
SpecLive ==
    /\ Init
    /\ [][Next]_vars
    /\ WF_vars(ResetTimer)
    /\ WF_vars(EndTimer)
    /\ []<>~EndOwed

\* The sessions of SpecLive on result events whose final text is one
\* parseCommand raises an error for, or one it parses
RaisingEvents ==
    [1..1 -> [transcript : {"constructor 4", "level 7"}, isFinal : {TRUE},
              confidence : {InitialConfidence}]]

NextRaising ==
    \/ StartListening
    \/ StopListening
    \/ OnStart
    \/ OnResultOf(RaisingEvents)
    \/ OnError
    \/ OnEnd
    \/ ResetTimer
    \/ EndTimer

SpecRaising ==
    /\ Init
    /\ [][NextRaising]_vars
    /\ WF_vars(ResetTimer)
    /\ WF_vars(EndTimer)
    /\ []<>~EndOwed

\* The sessions on result events whose text tells the confidence: a final
\* result of low confidence, one of high confidence, an interim result
GradedResults ==
    {[transcript |-> "level 7", isFinal |-> TRUE, confidence |-> 34],
     [transcript |-> "scout 4", isFinal |-> TRUE, confidence |-> InitialConfidence + 5],
     [transcript |-> "lev", isFinal |-> FALSE, confidence |-> 0]}

NextGraded ==
    \/ StartListening
    \/ StopListening
    \/ OnStart
    \/ OnResultOf([1..1 -> GradedResults])
    \/ OnError
    \/ OnEnd
    \/ ResetTimer
    \/ EndTimer

SpecGraded == Init /\ [][NextGraded]_vars

(***************************************************************************)
(* processCommand invoked directly, transcript after transcript, on each   *)
(* variant.                                                                *)
(***************************************************************************)
MaxCalls == 3

MaxInvocations == 11

ProcessTexts == {"level 7", "hello", "pve off level 7 scout 4"}

GateConfidences == {34, 35, 59, 60}

\* What the parsers of the variants "vc" and "legacy" may return
GivenParses == {<<>>, <<Command("level", NumV(7), "Level 7")>>}

ProcessCommandCall(texts, confidences, givens, pages, max) ==
    /\ invocations < max
    /\ \E t \in texts, confidence \in confidences, page \in pages,
          given \in (IF variant = "v5" THEN {<<>>} ELSE givens) :
          /\ \E res \in {processCommand(variant, t, confidence, given, status,
                                         commandHistory, page, invocations + 1)} :
                /\ invocations' = invocations + 1
                /\ status' = res.status
                /\ commandHistory' = res.history
                /\ understood' = IF res.dispatched # <<>> THEN understood + 1 ELSE understood
                /\ lastCall' = [text |-> t, confidence |-> confidence,
                                page |-> PageSeen(res.dispatched, page),
                                parsed |-> res.parsed, dispatched |-> res.dispatched,
                                effects |-> res.effects, threw |-> res.threw]
    /\ lastOp' = "processCommand"
    /\ UNCHANGED <<variant, isListening, fullTranscript, lastConfidence, timerInterval,
                   transcriptVisible, envVars, starts, session, parseVars, returnedHistory>>

InitProcess == (\E v \in Variants : EngineInit(v)) /\ ParseIdle

NextProcess == ProcessCommandCall(ProcessTexts, GateConfidences, GivenParses, Pages, MaxCalls)

SpecProcess == InitProcess /\ [][NextProcess]_vars

\* A long run of invocations: each one is rejected by the gate, or
\* accepted and understood
HistoryTexts == {"level 7"}

HistoryConfidences == {34, InitialConfidence}

HistoryParses == {<<Command("level", NumV(7), "Level 7")>>}

NextHistory ==
    ProcessCommandCall(HistoryTexts, HistoryConfidences, HistoryParses, {FullPage},
                       MaxInvocations)

SpecHistory == InitProcess /\ [][NextHistory]_vars

(***************************************************************************)
(* One parse walked pass by pass.                                          *)
(***************************************************************************)
\* The utterances a parse is walked on: every sequence of at most MaxTokens
\* words of one vocabulary, and every sequence of at most MaxChunks
\* self-contained chunks of different Command kinds.
Vocabularies ==
    {{"level", "up", "down", "4", "7", "12", "scouted", "constructor"},
     {"ditto", "pve", "on", "off", "wild", "target", "is", "4"},
     {"rare", "blue", "2", "3", "stars", "clear", "level", "copies"}}

\* kind is the Command kind the chunk yields
Chunks ==
    {[words |-> "pve on", kind |-> "pve"],
     [words |-> "ditto off", kind |-> "ditto"],
     [words |-> "scouting 4", kind |-> "scouting"],
     [words |-> "copy 2", kind |-> "copies"],
     [words |-> "level 12", kind |-> "level"],
     [words |-> "level 7", kind |-> "level"],
     [words |-> "rare", kind |-> "rarity"],
     [words |-> "wild", kind |-> "wild"]}

ChunkKind(words) == (CHOOSE c \in Chunks : c.words = words).kind

SeqsUpTo(S, n) == UNION {[1..k -> S] : k \in 0..n}

WordUtterances == UNION {SeqsUpTo(V, MaxTokens) : V \in Vocabularies}

ChunkUtterances ==
    {u \in SeqsUpTo({c.words : c \in Chunks}, MaxChunks) :
        \A i, j \in 1..Len(u) : i # j => ChunkKind(u[i]) # ChunkKind(u[j])}

\* Utterances of more than MaxTokens words, or of words of more than one
\* vocabulary
OtherUtterances ==
    {<<"wild", "target", "is", "wild">>,
     <<"target", "is", "wild", "target">>,
     <<"4", "stars">>,
     <<"12", "star">>,
     <<"constructor", "rare">>,
     <<"level", "to", "5">>,
     <<"change", "level", "to", "5">>,
     <<"scout", "to", "4">>,
     <<"level", "to", "2">>,
     <<"pve", "on", "pve", "off">>}

Utterances == WordUtterances \cup ChunkUtterances \cup OtherUtterances

InitParse ==
    /\ EngineInit("v5")
    /\ utterance \in Utterances
    /\ pc = "convert"
    /\ text = ""
    /\ tokens = <<>>
    /\ consumed = <<>>
    /\ commands = <<>>
    /\ claimed = <<>>

\* The parse state held by the variables
ParseState ==
    [commands |-> commands, claimed |-> claimed, consumed |-> consumed, threw |-> FALSE]

\* const converted = convertWordsToNumbers(text)
Convert ==
    /\ pc = "convert"
    /\ text' = convertWordsToNumbers(join(utterance, " "))
    /\ pc' = "tokenize"
    /\ UNCHANGED <<utterance, tokens, consumed, commands, claimed>>
    /\ UNCHANGED <<engineVars, envVars, bookVars>>

\* The head of parseCommand: original, tokens and the consumption map
TokenizeStep ==
    /\ pc = "tokenize"
    /\ tokens' = Tokenize(text)
    /\ consumed' = ParseStart(Tokenize(text)).consumed
    /\ commands' = <<>>
    /\ claimed' = <<>>
    /\ pc' = "toggle"
    /\ UNCHANGED <<utterance, text>>
    /\ UNCHANGED <<engineVars, envVars, bookVars>>

\* Pass `name` runs and the parse moves on to `next`
PassStep(name, next) ==
    /\ pc = name
    /\ \E st \in {ApplyPass(name, Original(text), tokens, ParseState)} :
           /\ commands' = st.commands
           /\ claimed' = st.claimed
           /\ consumed' = st.consumed
           /\ pc' = IF st.threw THEN "threw" ELSE next
    /\ UNCHANGED <<utterance, text, tokens>>
    /\ UNCHANGED <<engineVars, envVars, bookVars>>

ToggleAction == PassStep("toggle", "wild")

WildAction == PassStep("wild", "number")

NumberAction == PassStep("number", "rarity")

RarityAction == PassStep("rarity", "evolution")

EvolutionAction == PassStep("evolution", "levelupdown")

LevelUpDownAction == PassStep("levelupdown", "clear")

ClearAction == PassStep("clear", "fallback")

FallbackAction == PassStep("fallback", "done")

NextParse ==
    \/ Convert
    \/ TokenizeStep
    \/ ToggleAction
    \/ WildAction
    \/ NumberAction
    \/ RarityAction
    \/ EvolutionAction
    \/ LevelUpDownAction
    \/ ClearAction
    \/ FallbackAction

SpecParse == InitParse /\ [][NextParse]_vars

(***************************************************************************)
(* The normalizer applied to a text, and to its own output.  utterance     *)
(* lists the pieces of the text handed in, words at the odd positions and  *)
(* separators at the even ones; text is the last output.                   *)
(***************************************************************************)
\* The words of a text
MaxWords == 2

NormalizerWords ==
    {"Two", "TO", "too", "four", "thirteen", "fourteen", "sixteen", "seventeen",
     "eighteen", "nineteen", "stone", "Level", "7"}

Separators == {" ", "-"}

\* The texts of k words
Pieces(k) ==
    {u \in [1..(2 * k - 1) -> NormalizerWords \cup Separators] :
        \A i \in 1..(2 * k - 1) :
            IF i % 2 = 1 THEN u[i] \in NormalizerWords ELSE u[i] \in Separators}

NormalizerInputs == UNION {Pieces(k) : k \in 1..MaxWords}

InitNormalize ==
    /\ EngineInit("v5")
    /\ utterance \in NormalizerInputs
    /\ pc = "normalize"
    /\ text = ""
    /\ tokens = <<>>
    /\ consumed = <<>>
    /\ commands = <<>>
    /\ claimed = <<>>

\* convertWordsToNumbers(text) on the text handed in
Normalize ==
    /\ pc = "normalize"
    /\ text' = convertWordsToNumbers(Concat(utterance))
    /\ pc' = "normalized"
    /\ UNCHANGED <<utterance, tokens, consumed, commands, claimed>>
    /\ UNCHANGED <<engineVars, envVars, bookVars>>

\* convertWordsToNumbers on its own output
Renormalize ==
    /\ pc = "normalized"
    /\ text' = convertWordsToNumbers(text)
    /\ pc' = "renormalized"
    /\ UNCHANGED <<utterance, tokens, consumed, commands, claimed>>
    /\ UNCHANGED <<engineVars, envVars, bookVars>>

NextNormalize ==
    \/ Normalize
    \/ Renormalize

SpecNormalize == InitNormalize /\ [][NextNormalize]_vars

(***************************************************************************)
(* window.voiceControl of the v5 engine, called while the engine runs.     *)
(***************************************************************************)
\* The processCommand invocations of a run
MaxApiCalls == 2

ApiTexts == {"level 7"}

ApiConfidences == {InitialConfidence}

TestTexts == {"", " ", "level seven", "constructor 4"}

\* What a caller passes behind the text
TestConfidences == {34, 90}

\* A faulty TestInput, which leaves the number words
TestInput_Raw(t) == t

\* const converted = convertWordsToNumbers(text)
TestInput(t) == convertWordsToNumbers(t)

\* parseCommand(converted) for each of the texts
TestParse == [t \in TestTexts |-> parseCommand(TestInput(t))]

\* test(text), called with a confidence behind the text (the function has
\* one parameter, so the confidence is dropped): the text is normalized
\* and parsed, the Commands are dispatched and returned.  commands holds
\* the list returned.
TestCall ==
    /\ \E t \in TestTexts :
          \E r \in {TestParse[t]}, confidence \in TestConfidences, page \in Pages :
             \E log \in {IF r.threw
                         THEN [calls |-> <<>>, effects |-> <<>>, page |-> page, threw |-> TRUE]
                         ELSE Dispatch(r.commands, page)} :
                /\ utterance' = <<t>>
                /\ text' = TestInput(t)
                /\ tokens' = Tokenize(TestInput(t))
                /\ commands' = r.commands
                /\ consumed' = r.consumed
                /\ claimed' = r.claimed
                /\ pc' = IF log.threw THEN "threw" ELSE "returned"
                /\ lastCall' = [text |-> t, confidence |-> confidence,
                                page |-> PageSeen(log.calls, page),
                                parsed |-> <<TestInput(t)>>, dispatched |-> log.calls,
                                effects |-> log.effects, threw |-> log.threw]
    /\ lastOp' = "test"
    /\ UNCHANGED <<engineVars, envVars, starts, invocations, understood, session,
                   returnedHistory>>

\* getHistory(): the array commandHistory names is handed out
GetHistory ==
    /\ returnedHistory' = [given |-> TRUE, seen |-> commandHistory]
    /\ lastOp' = "getHistory"
    /\ UNCHANGED <<engineVars, envVars, starts, invocations, understood, lastCall,
                   session, parseVars>>

\* What the caller reads in the array it was given: the array is the one
\* commandHistory names
ReturnedValue == commandHistory

\* The caller empties the array it was given (length = 0)
CallerMutates ==
    /\ returnedHistory.given
    /\ ReturnedValue # <<>>
    /\ commandHistory' = <<>>
    /\ returnedHistory' = [given |-> TRUE, seen |-> <<>>]
    /\ lastOp' = "caller"
    /\ UNCHANGED <<variant, isListening, fullTranscript, lastConfidence, timerInterval,
                   status, transcriptVisible, envVars, starts, invocations, understood,
                   lastCall, session, parseVars>>

InitApi == EngineInit("v5") /\ ParseIdle

\* test called between sessions and processCommand invocations
NextTest ==
    \/ TestCall
    \/ ProcessCommandCall(ApiTexts, ApiConfidences, {<<>>}, {FullPage}, MaxApiCalls)
    \/ StartListening
    \/ OnEnd

SpecTest == InitApi /\ [][NextTest]_vars

\* getHistory called between processCommand invocations
NextGetHistory ==
    \/ GetHistory
    \/ CallerMutates
    \/ ProcessCommandCall(ProcessTexts, HistoryConfidences, {<<>>}, Pages, MaxApiCalls)

SpecGetHistory == InitApi /\ [][NextGetHistory]_vars

\* test called between processCommand invocations on transcripts of every
\* outcome: rejected by the gate, not understood, understood
NextWriters ==
    \/ TestCall
    \/ ProcessCommandCall(ProcessTexts, GateConfidences, {<<>>}, Pages, MaxApiCalls)

SpecWriters == InitApi /\ [][NextWriters]_vars

(***************************************************************************)
(* Properties of the chunk parser.                                         *)
(***************************************************************************)
Range(seq) == {seq[i] : i \in DOMAIN seq}

\* The multiset of the kinds and values of a Command list
CommandBag(cmds) ==
    LET kv(c) == [type |-> c.type, value |-> c.value]
    IN  [x \in {kv(c) : c \in Range(cmds)} |->
            Cardinality({i \in DOMAIN cmds : kv(cmds[i]) = x})]

LevelCommand(n) == Command("level", NumV(n), "Level " \o NumToString(n))

\* C1: within one parse no token index contributes to more than one emitted
\* Command, whatever the pass that emitted it.
C1_ConsumptionExclusivity ==
    \A k, l \in DOMAIN claimed : k # l => claimed[k] \cap claimed[l] = {}

\* C2: parseCommand raises no error, whatever the token sequence.
C2_ParseNeverRaises == pc # "threw"

\* The utterance with its pieces in the order f gives
Permuted(u, f) == [i \in 1..Len(u) |-> u[f[i]]]

\* C3: an utterance made of self-contained chunks of different Command kinds
\* yields the same multiset of Commands in every order of its chunks.
C3_OrderIndependence ==
    (pc = "done" /\ utterance \in ChunkUtterances) =>
        \A f \in Permutations(1..Len(utterance)) :
            LET r == parseCommand(convertWordsToNumbers(join(Permuted(utterance, f), " ")))
            IN  ~r.threw /\ CommandBag(r.commands) = CommandBag(commands)

C3_Witness ==
    /\ pc = "done"
    /\ utterance = <<"copy 2", "scouting 4", "pve on">>
    /\ CommandBag(commands) =
           CommandBag(parseCommand("pve on scouting 4 copy 2").commands)
    /\ Len(commands) = 3

LevelKeywords == {"level", "lvl", "lv"}

OrphanTokens == {i \in DOMAIN tokens : ~isNaN(parseInt(tokens[i])) /\ parseInt(tokens[i]).n \in 1..9}

\* C5: the fallback pass adds a Command only when the earlier passes emitted
\* none; it then adds at most one, the level Command of the first token that
\* is an integer in 1..9.
C5_Fallback ==
    [][pc = "fallback" =>
          IF Len(commands) > 0 \/ OrphanTokens = {}
          THEN commands' = commands
          ELSE LET first == CHOOSE i \in OrphanTokens : \A j \in OrphanTokens : i <= j
               IN  commands' = <<LevelCommand(parseInt(tokens[first]).n)>>]_vars

C5_Witness ==
    /\ pc = "done"
    /\ tokens = <<"12", "4", "7">>
    /\ commands = <<LevelCommand(4)>>

(***************************************************************************)
(* Properties of the passes, stated of the step of SpecParse that runs the *)
(* pass: pc names the pass about to run, the unprimed variables are the    *)
(* locals of parseCommand before its loop and the primed ones after it.    *)
(***************************************************************************)
\* The indices whose slot of the consumption map is set
Taken(map) == {p \in DOMAIN map : map[p]}

\* The Commands the pass pushed, as indices of the list after it
Appended == (Len(commands) + 1)..Len(commands')

\* The pass pushed Commands only: the list before it is a prefix
PushedOnly ==
    Len(commands') >= Len(commands) /\ SubSeq(commands', 1, Len(commands)) = commands

\* The slots the pass set are those of the tokens of the Commands it pushed
ConsumedByAppended ==
    Taken(consumed') = Taken(consumed) \cup UNION {claimed'[k] : k \in Appended}

IsInteger(token) == ~isNaN(parseInt(token))

IntegerOf(token) == parseInt(token).n

\* The keyword and the number among the tokens of a Command the keyword +
\* number pass pushed
KeywordOf(k) == CHOOSE p \in claimed'[k] : tokens[p] \in DOMAIN numberCommands

NumberOf(k) == CHOOSE p \in claimed'[k] : p # KeywordOf(k)

\* The indices consumed when the loop of the pass is at index i: those
\* consumed before the pass and those of the Commands pushed for the
\* keywords before i
NumberTakenAt(i) ==
    Taken(consumed) \cup UNION {claimed'[k] : k \in {m \in Appended : KeywordOf(m) < i}}

\* The number the claim binds to the keyword at index i; 0 when none
Candidate(i) ==
    LET free(p) == /\ p \in DOMAIN tokens
                   /\ p \notin NumberTakenAt(i)
                   /\ IsInteger(tokens[p])
    IN  IF free(i + 1) THEN i + 1
        ELSE IF free(i + 2) THEN i + 2
        ELSE IF free(i - 1) THEN i - 1
        ELSE IF free(i - 2) THEN i - 2
        ELSE 0

\* The index at which the loop of the pass ends early, if it does: that of
\* the first name inherited from Object.prototype with a number to bind
\* (see C2); the indices up to it are those the loop reaches
NumberLoopReaches(i) ==
    \A p \in DOMAIN tokens :
        (tokens[p] \in InheritedKeys /\ p \notin NumberTakenAt(p) /\ Candidate(p) # 0)
            => i < p

\* The keyword at index i passes the validation of its table entry
PassesValidation(i, n) == tokens[i] \in LevelKeywords => (n >= 1 /\ n <= 9)

\* The keywords the loop reaches unconsumed, with a number to bind
BindingKeywords ==
    {i \in DOMAIN tokens : /\ tokens[i] \in DOMAIN numberCommands
                            /\ i \notin NumberTakenAt(i)
                            /\ NumberLoopReaches(i)
                            /\ Candidate(i) # 0}

C22_ValidationDiscards ==
    [][pc = "number" =>
          /\ ConsumedByAppended
          /\ \A i \in BindingKeywords :
                ~PassesValidation(i, IntegerOf(tokens[Candidate(i)])) =>
                    /\ \A k \in Appended : i \notin claimed'[k]
                    /\ ~consumed'[i]
                    /\ consumed'[Candidate(i)] =>
                           \E k \in Appended : /\ Candidate(i) \in claimed'[k]
                                                /\ KeywordOf(k) > i]_vars

\* "level 12 scouted": 12 is no level, and is left to the next keyword
C22_Witness ==
    /\ pc = "rarity"
    /\ tokens = <<"level", "12", "scouted">>
    /\ commands = <<Command("scouting", NumV(12), "Scout 12")>>
    /\ consumed = <<FALSE, TRUE, TRUE>>

\* The keyword and the deciding word among the tokens of a Command the
\* toggle pass pushed
ToggleKeywordOf(k) == CHOOSE p \in claimed'[k] : tokens[p] \in DOMAIN toggles

DecidingOf(k) == CHOOSE p \in claimed'[k] : p # ToggleKeywordOf(k)

\* The indices consumed when the loop of the toggle pass is at index i
ToggleTakenAt(i) ==
    Taken(consumed) \cup
        UNION {claimed'[k] : k \in {m \in Appended : ToggleKeywordOf(m) < i}}

\* The word that decides the toggle keyword at index i: the word before it
\* if that is an unconsumed on-word or off-word of the keyword, else the
\* word after it if that is one; 0 when neither is
Deciding(i) ==
    LET words == toggles[tokens[i]].onWords \cup toggles[tokens[i]].offWords
        decides(p) == /\ p \in DOMAIN tokens
                      /\ p \notin ToggleTakenAt(i)
                      /\ tokens[p] \in words
    IN  IF decides(i - 1) THEN i - 1
        ELSE IF decides(i + 1) THEN i + 1
        ELSE 0

\* The toggle Command of the keyword at index kw decided by the word at d
ToggleCommand(kw, d) ==
    IF tokens[d] \in toggles[tokens[kw]].onWords
    THEN Command(tokens[kw], BoolV(TRUE), tokens[kw] \o " on")
    ELSE Command(tokens[kw], BoolV(FALSE), tokens[kw] \o " off")

\* C23: the toggle pass decides an unconsumed toggle keyword by the word
\* before it if that is an unconsumed on-word or off-word of the keyword,
\* whatever the word after it is, and else by the word after it; it then
\* pushes exactly one toggle Command, true for an on-word and false for an
\* off-word, and consumes the keyword and the deciding word; without such
\* a word it pushes and consumes nothing.
C23_TogglePass ==
    [][pc = "toggle" =>
          /\ PushedOnly
          /\ ConsumedByAppended
          /\ \A k \in Appended :
                /\ Cardinality(claimed'[k]) = 2
                /\ \E p \in claimed'[k] : tokens[p] \in DOMAIN toggles
                /\ ToggleKeywordOf(k) \notin ToggleTakenAt(ToggleKeywordOf(k))
                /\ DecidingOf(k) = Deciding(ToggleKeywordOf(k))
                /\ commands'[k] = ToggleCommand(ToggleKeywordOf(k), DecidingOf(k))
          /\ \A k, l \in Appended : k < l => ToggleKeywordOf(k) < ToggleKeywordOf(l)
          /\ \A i \in DOMAIN tokens :
                (tokens[i] \in DOMAIN toggles /\ i \notin ToggleTakenAt(i)) =>
                    Cardinality({k \in Appended : i \in claimed'[k]}) =
                        IF Deciding(i) # 0 THEN 1 ELSE 0]_vars

\* "on pve off": the word before the keyword decided, the word after it
\* is left
C23_Witness ==
    /\ pc = "wild"
    /\ tokens = <<"on", "pve", "off">>
    /\ commands = <<Command("pve", BoolV(TRUE), "pve on")>>
    /\ consumed = <<TRUE, TRUE, FALSE>>

\* The passes that push Commands, in the order of the source, and the
\* Commands of each
Passes == <<"toggle", "wild", "number", "rarity", "evolution", "levelup", "leveldown",
            "clear", "fallback">>

\* The passes a Command may come from, by its type and value
PassesOf(cmd) ==
    CASE cmd.type \in {"ditto", "pve"} -> {"toggle"}
      [] cmd.type = "wild" -> {"wild"}
      [] cmd.type \in {"scouting", "bench", "copies", "refreshes"} -> {"number"}
      [] cmd.type = "rarity" -> {"rarity"}
      [] cmd.type = "evolution" -> {"evolution"}
      [] cmd.type = "level" /\ cmd.value = StrV("up") -> {"levelup"}
      [] cmd.type = "level" /\ cmd.value = StrV("down") -> {"leveldown"}
      [] cmd.type = "level" /\ cmd.value.k = "num" -> {"number", "fallback"}
      [] cmd.type = "clear" -> {"clear"}
      [] OTHER -> {}

\* The place of a pass in the order
PassRank(name) == CHOOSE r \in DOMAIN Passes : Passes[r] = name

\* The pass the Command k of the list came from: the fallback runs on an
\* empty list only
PassOfCommand(k) ==
    IF PassesOf(commands[k]) = {"number", "fallback"}
    THEN IF Len(commands) = 1 /\ Cardinality(claimed[k]) = 1 THEN "fallback" ELSE "number"
    ELSE CHOOSE name \in PassesOf(commands[k]) : TRUE

\* The index at which the loop of its pass pushed the Command k: that of
\* the keyword for a toggle or keyword + number Command, else the first
\* of its tokens
LoopIndexOf(k) ==
    LET keywords == {p \in claimed[k] : tokens[p] \in DOMAIN toggles
                                            \/ tokens[p] \in DOMAIN numberCommands}
    IN  IF keywords # {} THEN Min(keywords) ELSE Min(claimed[k])

\* The Commands a step of the pass pc may push
PushedByPass(cmd) ==
    \/ pc \in PassesOf(cmd)
    \/ pc = "levelupdown" /\ PassesOf(cmd) \subseteq {"levelup", "leveldown"}

\* The step pushes Commands of the pass pc behind those there are
PushesItsOwn ==
    /\ PushedOnly
    /\ \A k \in Appended : PushedByPass(commands'[k])

\* C24: the Command list is in the order of the passes (toggle, wild,
\* keyword + number, rarity, evolution, level up, level down, clear,
\* fallback), and the Commands of one pass are in the order of their
\* tokens; every pass pushes its own Commands behind those of the passes
\* before it.
C24_PassOrder ==
    /\ [](\A k, l \in DOMAIN commands :
             k < l =>
                 /\ PassesOf(commands[k]) # {}
                 /\ PassRank(PassOfCommand(k)) <= PassRank(PassOfCommand(l))
                 /\ PassOfCommand(k) = PassOfCommand(l) => LoopIndexOf(k) < LoopIndexOf(l))
    /\ [][(pc \in Range(PassOrder)) => PushesItsOwn]_vars

\* "rare level 2": the level Command precedes the rarity Command
C24_Witness ==
    /\ pc = "done"
    /\ tokens = <<"rare", "level", "2">>
    /\ commands = <<LevelCommand(2), Command("rarity", StrV("rare"), "rare")>>

\* The unconsumed rarity words
FreeRarityWords == {i \in DOMAIN tokens : ~consumed[i] /\ tokens[i] \in DOMAIN rarities}

RarityOf(i) == Command("rarity", StrV(rarities[tokens[i]]), rarities[tokens[i]])

\* C25: a parse yields at most one rarity Command; the rarity pass pushes
\* the Command of the first rarity word that is unconsumed when it runs
\* and consumes that token, and pushes and consumes nothing when there is
\* no such word.  It fails for a token that names a property inherited
\* from Object.prototype, which is taken for a rarity word.
C25_OneRarity ==
    /\ [](Cardinality({k \in DOMAIN commands : commands[k].type = "rarity"}) <= 1)
    /\ [][pc = "rarity" =>
             IF FreeRarityWords = {}
             THEN commands' = commands /\ consumed' = consumed
             ELSE /\ commands' = Append(commands, RarityOf(Min(FreeRarityWords)))
                  /\ consumed' = [consumed EXCEPT ![Min(FreeRarityWords)] = TRUE]]_vars

\* The text without its white space
Squeezed(s) == Concat([i \in 1..Len(s) |-> IF IsSpace(Ch(s, i)) THEN "" ELSE Ch(s, i)])

\* parseCommand has made its tokens
Tokenized == pc \notin {"idle", "convert", "tokenize"}

\* C26: the tokens of an empty text or of a text of white space are the
\* empty sequence, and so is the consumption map; the tokens of another
\* text are the pieces of the trimmed, lower-cased text between its runs
\* of white space, none of them empty.  It fails for the empty text, whose
\* token sequence holds one empty token.
C26_Tokenizer ==
    Tokenized =>
        IF trim(text) = ""
        THEN tokens = <<>> /\ consumed = <<>>
        ELSE /\ \A i \in DOMAIN tokens : tokens[i] # "" /\ Squeezed(tokens[i]) = tokens[i]
             /\ Concat(tokens) = Squeezed(toLowerCase(text))
             /\ join(tokens, " ") = trim(toLowerCase(text))
             /\ Len(consumed) = Len(tokens)

\* The consumption map after the step has every slot the map before it
\* has, and those that were set are set
KeepsConsumed ==
    /\ DOMAIN consumed' = DOMAIN consumed
    /\ \A i \in DOMAIN consumed : consumed[i] => consumed'[i]

\* C27: the consumption map is made with one slot for each token, all of
\* them false; it keeps that length, and no pass sets a slot that is true
\* back to false.
C27_ConsumptionMonotonic ==
    /\ [](Tokenized => DOMAIN consumed = DOMAIN tokens)
    /\ [][pc = "tokenize" => \A i \in DOMAIN consumed' : ~consumed'[i]]_vars
    /\ [][Tokenized => KeepsConsumed]_vars

\* "pve on wild": the wild pass has kept the slots the toggle pass set
C27_Witness ==
    /\ pc = "done"
    /\ tokens = <<"pve", "on", "wild">>
    /\ Len(commands) = 2
    /\ consumed = <<TRUE, TRUE, TRUE>>

WildCommand == Command("wild", BoolV(TRUE), "Wild target")

\* The indices at which the phrase 'target is wild' starts
WildPhrases ==
    {i \in DOMAIN tokens : /\ tokens[i] = "target"
                            /\ TokenAt(tokens, i + 1) = "is"
                            /\ TokenAt(tokens, i + 2) = "wild"}

\* The unconsumed 'wild' tokens outside the phrase
SingleWilds ==
    {i \in DOMAIN tokens : tokens[i] = "wild" /\ ~consumed[i] /\ i - 2 \notin WildPhrases}

\* The 'target' tokens next to the token at index i
TargetsNextTo(i) == {j \in {i - 1, i + 1} : TokenAt(tokens, j) = "target"}

\* C28: the wild pass pushes exactly one wild Command for each unconsumed
\* 'wild' token, wherever it is, and consumes it together with the
\* unconsumed 'target' next to it; for the phrase 'target is wild' it
\* pushes exactly one wild Command and consumes its three tokens.  It
\* fails for the phrase behind a 'wild': its 'target' is consumed with that
\* 'wild', the phrase is not seen and 'is' is left unconsumed.
C28_WildPass ==
    [][pc = "wild" =>
          /\ PushedOnly
          /\ ConsumedByAppended
          /\ \A k \in Appended : commands'[k] = WildCommand
          /\ \A k, l \in Appended : k # l => claimed'[k] \cap claimed'[l] = {}
          /\ Cardinality(Appended) = Cardinality(SingleWilds) + Cardinality(WildPhrases)
          /\ \A i \in SingleWilds :
                /\ \E k \in Appended :
                       /\ i \in claimed'[k]
                       /\ claimed'[k] \subseteq {i} \cup TargetsNextTo(i)
                /\ \A j \in TargetsNextTo(i) : consumed'[j]
          /\ \A i \in WildPhrases :
                \E k \in Appended : claimed'[k] = {i, i + 1, i + 2}]_vars

\* The indices of the pairs of a 2 or a 3 and 'star' or 'stars', both
\* unconsumed
EvolutionPairs ==
    {i \in 1..(Len(tokens) - 1) : /\ ~consumed[i]
                                   /\ ~consumed[i + 1]
                                   /\ IsInteger(tokens[i])
                                   /\ IntegerOf(tokens[i]) \in {2, 3}
                                   /\ tokens[i + 1] \in {"star", "stars"}}

EvolutionOf(i) == IF IntegerOf(tokens[i]) = 2 THEN StrV("twoStar") ELSE StrV("threeStar")

\* C29: the evolution pass pushes one evolution Command for each pair of
\* adjacent unconsumed tokens made of a 2 or a 3 and 'star' or 'stars',
\* twoStar for 2 and threeStar for 3, and consumes the pair; it pushes no
\* other Command and consumes no other token.
C29_EvolutionPass ==
    [][pc = "evolution" =>
          /\ PushedOnly
          /\ ConsumedByAppended
          /\ Cardinality(Appended) = Cardinality(EvolutionPairs)
          /\ \A k \in Appended :
                \E i \in EvolutionPairs :
                    /\ claimed'[k] = {i, i + 1}
                    /\ commands'[k].type = "evolution"
                    /\ commands'[k].value = EvolutionOf(i)
          /\ \A k, l \in Appended : k < l => Min(claimed'[k]) < Min(claimed'[l])]_vars

\* "2 3 stars": the pair of 3 and 'stars' gave threeStar, the 2 is left
C29_Witness ==
    /\ pc = "levelupdown"
    /\ tokens = <<"2", "3", "stars">>
    /\ Len(commands) = 1
    /\ commands[1].type = "evolution"
    /\ commands[1].value = StrV("threeStar")
    /\ consumed = <<FALSE, TRUE, TRUE>>

\* C32: an integer that stands right behind a numeric keyword, both
\* unconsumed when the keyword + number pass starts, is bound to that
\* keyword: every Command the pass makes of the integer has the kind of the
\* keyword.  It fails when another numeric keyword stands right before the
\* keyword: the loop reaches that one first and finds the integer two
\* tokens after it.
C32_AdjacentBinding ==
    [][pc = "number" =>
          \A i \in DOMAIN tokens :
              (/\ i + 1 \in DOMAIN tokens
               /\ tokens[i] \in DOMAIN numberCommands
               /\ IsInteger(tokens[i + 1])
               /\ ~consumed[i] /\ ~consumed[i + 1]) =>
                  \A k \in Appended :
                      i + 1 \in claimed'[k] =>
                          commands'[k].type = numberCommands[tokens[i]].type]_vars

\* The places of the utterance where a numeric keyword, 'to' and an integer
\* stand in a row, as indices of the keyword
KeywordToNumber ==
    {i \in DOMAIN utterance :
        /\ i + 2 \in DOMAIN utterance
        /\ utterance[i] \in DOMAIN numberCommands
        /\ utterance[i + 1] = "to"
        /\ IsInteger(utterance[i + 2])}

\* C33: an utterance '<numeric keyword> to <N>', normalized, tokenized and
\* parsed, yields a Command of the kind of the keyword with the value N.
\* It fails for every N but 2: the normalizer turns 'to' into '2', which
\* the keyword binds.
C33_KeywordToNumber ==
    pc = "done" =>
        \A i \in KeywordToNumber :
            \E k \in DOMAIN commands :
                /\ commands[k].type = numberCommands[utterance[i]].type
                /\ commands[k].value = NumV(IntegerOf(utterance[i + 2]))

ToggleKinds == {toggles[w].type : w \in DOMAIN toggles}

\* C36: a parse emits at most one Command of each toggle kind, and so never
\* an 'on' and an 'off' Command of the same toggle.  It fails when the
\* keyword stands twice, each time next to an on-word or off-word of its
\* own: the loop emits a Command for each.
C36_NoContradictoryToggles ==
    \A k, l \in DOMAIN commands :
        (k # l /\ commands[k].type \in ToggleKinds) => commands[k].type # commands[l].type

\* C38: a slot of the consumption map is set only for a token of a Command
\* of the list, so that the map is all false as long as the list is empty;
\* the fallback pass, which does not look at the map, makes its Command
\* of a token that is not consumed.
C38_ConsumedWithCommand ==
    /\ [](/\ Taken(consumed) \subseteq UNION {claimed[k] : k \in DOMAIN claimed}
          /\ commands = <<>> => Taken(consumed) = {})
    /\ [][pc = "fallback" =>
             \A k \in Appended : \A p \in claimed'[k] : ~consumed[p]]_vars

\* "level 12 4": the keyword + number pass found 12, pushed nothing and set
\* no slot; the fallback makes Level 4 of the unconsumed 4
C38_Witness ==
    /\ pc = "done"
    /\ tokens = <<"level", "12", "4">>
    /\ consumed = <<FALSE, FALSE, FALSE>>
    /\ commands = <<LevelCommand(4)>>
    /\ claimed = <<{3}>>

(***************************************************************************)
(* Properties of processCommand.                                           *)
(***************************************************************************)
\* The history holds the entries of the last HistoryCapacity invocations,
\* the newest first
LastInvocationsKept ==
    /\ Len(commandHistory) = HistoryCapacity
    /\ \A i \in 1..HistoryCapacity :
          EntryTime(commandHistory[i]) = invocations - i + 1

\* C6: after 11 (or more) sequential processCommand invocations, each of
\* which passed the confidence gate and parsed to at least one Command, the
\* history holds exactly 10 entries, those of the 10 most recent
\* invocations, newest first; the entry of the first invocation is gone.
C6_HistoryKeepsLastTen ==
    (invocations >= HistoryCapacity + 1 /\ understood = invocations) =>
        LastInvocationsKept

C6_Witness ==
    /\ invocations = HistoryCapacity + 1
    /\ understood = invocations
    /\ Len(commandHistory) = HistoryCapacity
    /\ EntryTime(commandHistory[HistoryCapacity]) = 2

\* C6 as stated, of any 11 invocations: it fails when one of them is
\* rejected by the gate or parses to no Command, for such an invocation
\* leaves no entry.
C6_AnyElevenInvocations ==
    invocations >= HistoryCapacity + 1 => LastInvocationsKept

\* The last invocation ended at the gate: 'Try again?', nothing parsed
Rejected == status = "Try again?" /\ lastCall.parsed = <<>>

\* C7: processCommand rejects a transcript if and only if its confidence is
\* strictly below the threshold of the variant (0.35 for v5, 0.6 for the
\* two others); a rejected transcript is not parsed, an accepted one is
\* parsed, the threshold itself is accepted and one hundredth below it is
\* rejected.
C7_GateBoundary ==
    lastOp = "processCommand" =>
        LET threshold == CASE variant = "v5" -> 35
                           [] variant = "vc" -> 60
                           [] variant = "legacy" -> 60
        IN  /\ Rejected <=> lastCall.confidence < threshold
            /\ ~Rejected => Len(lastCall.parsed) = 1
            /\ lastCall.confidence = threshold => ~Rejected
            /\ lastCall.confidence = threshold - 1 => Rejected

C7_Witness ==
    /\ lastOp = "processCommand"
    /\ variant = "v5"
    /\ lastCall.confidence = 35
    /\ lastCall.parsed = <<"level 7">>
    /\ status = "Done"

\* C8: in the v5 engine a transcript of low confidence ends in 'Try
\* again?' and a transcript that parses to no Command in 'Unknown', two
\* different outcomes, and in both no Command is handed to executeCommand.
C8_TryAgainAndUnknown ==
    (lastOp = "processCommand" /\ variant = "v5") =>
        /\ lastCall.confidence < ThresholdV5 =>
               status = "Try again?" /\ lastCall.dispatched = <<>>
        /\ (/\ lastCall.confidence >= ThresholdV5
            /\ parseCommand(convertWordsToNumbers(lastCall.text)).commands = <<>>) =>
               status = "Unknown" /\ lastCall.dispatched = <<>>

C8_Witness ==
    /\ lastOp = "processCommand"
    /\ variant = "v5"
    /\ lastCall.text = "hello"
    /\ lastCall.confidence = 35
    /\ status = "Unknown"
    /\ lastCall.dispatched = <<>>

\* What parseCommand gives for the normalized transcript, for each of the
\* transcripts
TranscriptCommands ==
    [t \in ProcessTexts |-> parseCommand(convertWordsToNumbers(t)).commands]

\* C31: the history changes only in a processCommand invocation whose
\* confidence passes the gate and whose transcript parses to at least one
\* Command, and then by the entry of that invocation; an invocation of low
\* confidence, one whose transcript parses to no Command, and a call of
\* test each leave the history as it is.
C31_HistoryWriters ==
    [][/\ commandHistory' # commandHistory =>
              /\ lastOp' = "processCommand"
              /\ lastCall'.confidence >= ThresholdV5
              /\ TranscriptCommands[lastCall'.text] # <<>>
              /\ Head(commandHistory') =
                     [text |-> lastCall'.text,
                      commands |-> TranscriptCommands[lastCall'.text],
                      time |-> invocations']
       /\ (lastOp' = "processCommand" /\ lastCall'.confidence < ThresholdV5) =>
              commandHistory' = commandHistory
       /\ (lastOp' = "processCommand" /\ TranscriptCommands[lastCall'.text] = <<>>) =>
              commandHistory' = commandHistory
       /\ lastOp' = "test" => commandHistory' = commandHistory]_vars

\* A transcript of low confidence was processed after an understood one and
\* left the one entry of the history
C31_Witness ==
    /\ lastOp = "processCommand"
    /\ invocations = 2
    /\ lastCall.confidence = 34
    /\ lastCall.text = "level 7"
    /\ Len(commandHistory) = 1
    /\ EntryTime(commandHistory[1]) = 1

(***************************************************************************)
(* Properties of the capture sessions.                                     *)
(***************************************************************************)
\* C9: startListening called while isListening is true changes nothing and
\* does not call recognition.start(); stopListening called while
\* isListening is false changes nothing and does not call
\* recognition.stop(); so recognition.start() is called only while the
\* recognizer is idle, never between a successful start and the end of the
\* session it opened.
C9_CaptureGuard ==
    [][/\ (lastOp' = "startListening" /\ isListening) =>
              UNCHANGED <<engineVars, envVars, starts, invocations, understood,
                          lastCall, session>>
       /\ (lastOp' = "stopListening" /\ ~isListening) =>
              UNCHANGED <<engineVars, envVars, starts, invocations, understood,
                          lastCall, session>>
       /\ starts' # starts => (rec.phase = "idle" /\ ~isListening)]_vars

\* startListening has just been called during a session
C9_Witness ==
    /\ lastOp = "startListening"
    /\ isListening
    /\ rec.phase = "running"
    /\ starts = 1

\* fullTranscript.trim() of a session with the final fragments `finals`
AccumulatedText(finals) == trim(Concat([i \in 1..Len(finals) |-> finals[i] \o " "]))

\* During a session nothing is handed to processCommand or to parseCommand,
\* and a session hands over at most one text
OneTextPerSession ==
    /\ Len(session.calls) <= 1
    /\ rec.phase # "idle" => session.calls = <<>> /\ session.parsed = <<>>

\* The end of a session without final text: 'No input', nothing processed
NoInputOutcome ==
    (lastOp = "onEnd" /\ AccumulatedText(session.finals) = "") =>
        session.calls = <<>> /\ session.parsed = <<>> /\ status = "No input"

\* C10: while the results of a session arrive nothing is parsed; when the
\* session ends, the final fragments received in it, in arrival order and
\* separated by spaces, are handed to processCommand as one text, once;
\* parseCommand gets that text (numerals normalized) once if the last
\* confidence passes the gate and not at all otherwise; interim fragments
\* are in no text handed over; a session without final text ends in 'No
\* input'.
C10_SessionAccumulation ==
    /\ OneTextPerSession
    /\ NoInputOutcome
    /\ (lastOp = "onEnd" /\ AccumulatedText(session.finals) # "") =>
           /\ session.calls = <<AccumulatedText(session.finals)>>
           /\ session.parsed =
                  IF lastConfidence < ThresholdV5 THEN <<>>
                  ELSE <<convertWordsToNumbers(AccumulatedText(session.finals))>>

\* A session of two final fragments and an accepted confidence has ended
C10_Witness ==
    /\ lastOp = "onEnd"
    /\ session.finals = <<"level 7", "level 7">>
    /\ session.calls = <<"level 7 level 7">>
    /\ session.parsed = <<"level 7 level 7">>
    /\ status = "Done"

\* C10 as stated, every ended session with final text being parsed exactly
\* once: it fails for a session whose last confidence is below the
\* threshold, which is not parsed at all.
C10_ParsedExactlyOnce ==
    /\ OneTextPerSession
    /\ NoInputOutcome
    /\ (lastOp = "onEnd" /\ AccumulatedText(session.finals) # "") =>
           /\ session.calls = <<AccumulatedText(session.finals)>>
           /\ session.parsed = <<convertWordsToNumbers(AccumulatedText(session.finals))>>

\* The confidence of the final result of GradedResults with the text t
GradeOf(t) == (CHOOSE r \in GradedResults : r.isFinal /\ r.transcript = t).confidence

\* C34: the confidence handed to processCommand at the end of a session,
\* and so the one the gate tests, is that of the last final result of the
\* session: the session has a final result, and neither the confidence of an
\* earlier final result or of an interim result, nor the value lastConfidence
\* had before the session, decides.
C34_GateConfidence ==
    (lastOp = "onEnd" /\ session.calls # <<>>) =>
        /\ session.finals # <<>>
        /\ lastCall.confidence = GradeOf(session.finals[Len(session.finals)])
        /\ status = "Try again?" <=>
               GradeOf(session.finals[Len(session.finals)]) < ThresholdV5

\* A session of a final result of low confidence followed by one of high
\* confidence was accepted
C34_Witness ==
    /\ lastOp = "onEnd"
    /\ session.finals = <<"level 7", "scout 4">>
    /\ lastCall.confidence = InitialConfidence + 5
    /\ status = "Done"

\* The text handed to processCommand at the end of a session is made of the
\* final results of that session alone
OwnFinalsOnly ==
    (lastOp = "onEnd" /\ session.calls # <<>>) =>
        session.calls = <<AccumulatedText(session.finals)>>

\* C35: fullTranscript is empty whenever the engine is not listening, and
\* the text parsed at the end of a session holds no final result of an
\* earlier session.  The first fails when onEnd is left by the error of
\* C2: the assignment that empties fullTranscript is not reached.
C35_SessionIsolation ==
    /\ ~isListening => fullTranscript = ""
    /\ OwnFinalsOnly

\* A session is listening and has had no error event: every callback
\* pending was scheduled by an earlier session
LaterSessionListening == isListening /\ rec.phase \in {"running", "stopping"}

\* C37: a callback scheduled by an earlier session (resetUI after an error
\* event, the callback of onEnd) does not set the status to 'Ready' and
\* does not hide the transcript while a later session is listening.  It
\* fails for resetUI, which looks at nothing before it sets the status.
C37_NoStaleTimers ==
    [][/\ (lastOp' = "resetUI" /\ LaterSessionListening) => status' # "Ready"
       /\ (lastOp' = "endTimer" /\ LaterSessionListening) =>
              (status' = status /\ transcriptVisible' = transcriptVisible)]_vars

(***************************************************************************)
(* Properties of error handling.                                           *)
(***************************************************************************)
\* The engine is ready: not listening, the recognizer outside a session, so
\* that startListening passes its guard and calls recognition.start()
Ready == ~isListening /\ rec.phase = "idle"

StartFailed == lastOp = "startListening" /\ rec.raised = "start"

StopFailed == lastOp = "stopListening" /\ rec.raised = "stop"

\* The last processCommand left a Command without effect on the page
TargetNotFound ==
    /\ lastOp = "onEnd"
    /\ status = "Done"
    /\ Len(lastCall.effects) < Len(lastCall.dispatched)

\* An error of one of the kinds has just happened
ErrorSeen ==
    \/ StartFailed
    \/ StopFailed
    \/ lastOp = "onError"
    \/ lastOp = "onEnd" /\ status \in {"Try again?", "Unknown"}
    \/ TargetNotFound

\* C11: after an error of any kind (a failed recognition.start(), a failed
\* recognition.stop(), an error event, a transcript below the confidence
\* threshold, a parse without Commands, a Command whose target is not on
\* the page) the engine eventually is ready.  It fails after a failed
\* recognition.stop(): isListening stays true and the recognizer owes no
\* end event.
C11_NoErrorIsFatal == ErrorSeen ~> Ready

\* C12: when recognition.start() or recognition.stop() raises an error, the
\* call of startListening or stopListening returns with the engine not
\* listening and no interval running.  It fails for stopListening, which
\* leaves isListening true and the interval running.
C12_FailureRollsBack ==
    [][(\/ StartListening /\ ~StartGuard /\ rec'.raised = "start"
        \/ StopListening /\ ~StopGuard /\ rec'.raised = "stop")
          => (~isListening' /\ intervals' = {})]_vars

\* The Commands parseCommand yields for the text of the last invocation
ParsedCommands == parseCommand(convertWordsToNumbers(lastCall.text)).commands

\* The control executeCommand looks for
TargetOf(cmd) ==
    CASE cmd.type = "level" -> "select0"
      [] cmd.type = "rarity" -> "select1"
      [] cmd.type = "evolution" -> "select2"
      [] cmd.type = "copies" -> "copies owned"
      [] OTHER -> cmd.type

Located(cmd, page) == page.state /\ TargetOf(cmd) \in page.controls

\* C13: the Commands of an accepted parse are handed to executeCommand once
\* each, in list order, whether or not their targets are on the page; no
\* error is raised; and a Command whose target is on the page is written
\* to it, whatever became of the Commands before it.
C13_DispatchIsolation ==
    (variant = "v5" /\ lastOp = "processCommand" /\ ~Rejected /\ ParsedCommands # <<>>) =>
        /\ lastCall.dispatched = ParsedCommands
        /\ ~lastCall.threw
        /\ status = "Done"
        /\ \A k \in 1..Len(ParsedCommands) :
              Located(ParsedCommands[k], lastCall.page) =>
                  \E e \in Range(lastCall.effects) :
                      e.control = TargetOf(ParsedCommands[k])
        /\ \A e \in Range(lastCall.effects) : e.control \in lastCall.page.controls

\* Three Commands dispatched on the page without the level select: the
\* level Command writes nothing, the Command after it is written
C13_Witness ==
    /\ variant = "v5"
    /\ lastOp = "processCommand"
    /\ "select0" \notin lastCall.page.controls
    /\ Len(lastCall.dispatched) = 3
    /\ lastCall.dispatched[2].type = "level"
    /\ lastCall.effects = <<Effect("pve", BoolV(FALSE)), Effect("scouting", NumV(4))>>

\* C30: after an error event of whatever kind, 'no-speech' included, the
\* status is 'Ready' again at some later time, unless a new session has
\* been started by then (timerInterval is the handle of the interval of
\* the last session started).  It fails after 'no-speech' when onEnd is
\* left by the error of C2: no callback is scheduled.
C30_ErrorStatusClears ==
    \A n \in 1..MaxSessions :
        (lastOp = "onError" /\ timerInterval = n) ~> (status = "Ready" \/ timerInterval # n)

(***************************************************************************)
(* Properties of the normalizer.                                           *)
(***************************************************************************)
\* C14: convertWordsToNumbers applied to its own output gives that output
C14_NormalizerIdempotent == [][Renormalize => text' = text]_vars

\* A text with a number word twice was normalized twice
C14_Witness ==
    /\ pc = "renormalized"
    /\ utterance = <<"Two", " ", "Two">>
    /\ text = "2 2"

\* The number words: zero to twenty, in order
NumberWords ==
    <<"zero", "one", "two", "three", "four", "five", "six", "seven", "eight",
      "nine", "ten", "eleven", "twelve", "thirteen", "fourteen", "fifteen",
      "sixteen", "seventeen", "eighteen", "nineteen", "twenty">>

Homophones == {"to", "too"}

IsNumberWord(w) == w \in Range(NumberWords) \cup Homophones

\* The digit string of a number word
OwnDigits(w) ==
    IF w \in Homophones THEN "2"
    ELSE NumToString((CHOOSE i \in DOMAIN NumberWords : NumberWords[i] = w) - 1)

\* C15: a piece of the text that is not a number word (in whatever case) is
\* in the output as it was, the case of its letters included; a number
\* word in whatever case is replaced.  It fails for a piece with a capital
\* letter, which comes out in lower case.
C15_OnlyNumberWordsChange ==
    pc = "normalized" =>
        text = Concat([i \in DOMAIN utterance |->
                          IF IsNumberWord(toLowerCase(utterance[i]))
                          THEN OwnDigits(toLowerCase(utterance[i]))
                          ELSE utterance[i]])

\* C16: a whole-word number word is replaced by its own digit string,
\* whatever shorter number word it contains; the other pieces are left as
\* they are, but for the case of their letters.
C16_LongestMatch ==
    pc = "normalized" =>
        text = Concat([i \in DOMAIN utterance |->
                          IF IsNumberWord(toLowerCase(utterance[i]))
                          THEN OwnDigits(toLowerCase(utterance[i]))
                          ELSE toLowerCase(utterance[i])])

\* 'fourteen' next to 'four' was normalized
C16_Witness ==
    /\ pc = "normalized"
    /\ utterance = <<"fourteen", "-", "four">>
    /\ text = "14-4"

(***************************************************************************)
(* Properties of window.voiceControl and of the history.                   *)
(***************************************************************************)
\* C17: the empty text and a text of white space give an empty Command
\* list and raise no error, handed to parseCommand or to test
C17_EmptyInput ==
    (lastOp = "test" /\ trim(lastCall.text) = "") =>
        /\ \A r \in {parseCommand(lastCall.text)} : r.commands = <<>> /\ ~r.threw
        /\ pc = "returned"
        /\ commands = <<>>
        /\ lastCall.dispatched = <<>>
        /\ ~lastCall.threw

\* test(" ") has returned the empty list
C17_Witness ==
    /\ lastOp = "test"
    /\ lastCall.text = " "
    /\ tokens = <<"">>
    /\ pc = "returned"
    /\ commands = <<>>

\* C18: what getHistory() returned is a snapshot: a transcript processed
\* afterwards does not alter it, and the caller altering it does not alter
\* commandHistory.  Both fail: the array returned is commandHistory itself.
C18_HistorySnapshot ==
    /\ [](returnedHistory.given => ReturnedValue = returnedHistory.seen)
    /\ [][CallerMutates => commandHistory' = commandHistory]_vars

\* What parseCommand gives for the normalized text, for each of the texts
ParsedNormalized == [t \in TestTexts |-> parseCommand(convertWordsToNumbers(t))]

\* C19: test, called with a text and a confidence, returns the Command list
\* of parseCommand for the normalized text, whatever the confidence, the
\* history and the session are; it leaves isListening, the history and
\* every other variable of the engine as they are, and calls neither
\* recognition.start() nor recognition.stop().  (The steps of TestCall are
\* those that set lastOp to "test".)
C19_TestEntryPoint ==
    [][lastOp' = "test" =>
          /\ UNCHANGED <<engineVars, envVars, starts, invocations>>
          /\ \A r \in {ParsedNormalized[lastCall'.text]} :
                 /\ pc' = "returned" => commands' = r.commands
                 /\ pc' = "threw" => r.threw]_vars

\* test('level seven', 0.34) has returned Level 7 during a session, with an
\* entry in the history
C19_Witness ==
    /\ lastOp = "test"
    /\ isListening
    /\ commandHistory # <<>>
    /\ lastCall.text = "level seven"
    /\ lastCall.confidence = 34
    /\ pc = "returned"
    /\ commands = <<Command("level", NumV(7), "Level 7")>>

NewestFirst(history) ==
    \A i \in 1..(Len(history) - 1) : EntryTime(history[i]) > EntryTime(history[i + 1])

\* The history without the entry a push onto it drops
KeptByPush(history) ==
    IF Len(history) = HistoryCapacity THEN SubSeq(history, 1, HistoryCapacity - 1)
    ELSE history

\* C20: the history never holds more than 10 entries and is ordered newest
\* first; a push puts the entry of the invocation in front, drops the last
\* entry of a full history and nothing else, and keeps the order of the
\* others.
C20_HistoryBound ==
    /\ [](Len(commandHistory) <= HistoryCapacity /\ NewestFirst(commandHistory))
    /\ [][commandHistory' # commandHistory =>
             /\ EntryTime(Head(commandHistory')) = invocations'
             /\ Tail(commandHistory') = KeptByPush(commandHistory)]_vars

\* A push onto a full history has dropped the oldest entry
C20_Witness ==
    /\ variant = "vc"
    /\ invocations = HistoryCapacity + 1
    /\ Len(commandHistory) = HistoryCapacity
    /\ EntryTime(commandHistory[1]) = HistoryCapacity + 1
    /\ EntryTime(commandHistory[HistoryCapacity]) = 2

====
